---- MODULE Spec2Model ----
(***************************************************************************)
(* A model of the registration-service verification service                *)
(* (InitVerification, VerifyPhoneCode, VerifyActivationCode and the        *)
(* retried update of the UserSignup resource) and of the reverse proxy's   *)
(* request handler (handleRequestAndRedirect / newReverseProxy).           *)
(*                                                                         *)
(* Strings the code parses or formats are sequences of one-character       *)
(* strings, so strconv.Itoa / strconv.Atoi and time.Format / time.Parse    *)
(* are computed, not assumed. Time is counted in minutes.                  *)
(***************************************************************************)
EXTENDS Integers, Sequences, FiniteSets, TLC

(* ------------------------------------------------------------------ *)
(* Bounds of the model and values of the configuration                 *)
(* ------------------------------------------------------------------ *)

\* cfg.Verification().DailyLimit(): initiations allowed per 24-hour window
DailyLimit == 2

\* cfg.Verification().AttemptsAllowed(): wrong codes allowed per generated code
AttemptsAllowed == 2

\* the N of PollUpdateSignup: how often the update closure is invoked at most
MaxRetries == 2

\* cfg.Verification().CodeExpiresInMin()
CodeExpiresInMin == 5

\* generateVerificationCode: the length of a verification code
codeLength == 6

\* 24*time.Hour, in minutes
Day == 24 * 60

\* the concurrent requests of one behaviour, each served by its own handler;
\* p1 is the one that arrives first
Procs == {"p1", "p2"}
FirstProcs == {"p1"}

\* the user whose requests are modelled, and another user of the same host cluster
Requester == "johnny"
OtherUser == "alice"
Users == {Requester, OtherUser}

\* the times the clock shows: the start, past the expiry of a code generated at
\* the start, past the 24-hour window opened at the start
TimePoints == {0, CodeExpiresInMin + 1, Day + 1}

(* ------------------------------------------------------------------ *)
(* strconv and time                                                    *)
(* ------------------------------------------------------------------ *)

codeCharset == <<"0", "1", "2", "3", "4", "5", "6", "7", "8", "9">>

IsDigit(c) == \E i \in 1..Len(codeCharset) : codeCharset[i] = c

DigitValue(c) == (CHOOSE i \in 1..Len(codeCharset) : codeCharset[i] = c) - 1

RECURSIVE Itoa(_)
\* strconv.Itoa for n >= 0
Itoa(n) ==
    IF n < 10 THEN <<codeCharset[n + 1]>>
    ELSE Itoa(n \div 10) \o <<codeCharset[(n % 10) + 1]>>

\* whether strconv.Atoi returns no error (the model writes no signs)
AtoiOk(s) == Len(s) > 0 /\ \A i \in 1..Len(s) : IsDigit(s[i])

RECURSIVE AtoiValue(_)
\* the integer strconv.Atoi returns when AtoiOk(s)
AtoiValue(s) ==
    IF Len(s) = 0 THEN 0
    ELSE 10 * AtoiValue(SubSeq(s, 1, Len(s) - 1)) + DigitValue(s[Len(s)])

\* time.Time.Format(TimestampLayout): the layout is rendered as "T" and the minute count
TimestampFormat(t) == <<"T">> \o Itoa(t)

\* whether time.Parse(TimestampLayout, s) returns no error
TimestampParseOk(s) == Len(s) > 1 /\ s[1] = "T" /\ AtoiOk(Tail(s))

\* the time time.Parse returns when TimestampParseOk(s)
TimestampParseValue(s) == AtoiValue(Tail(s))

(* ------------------------------------------------------------------ *)
(* The UserSignup resource, BannedUser and SocialEvent                 *)
(* ------------------------------------------------------------------ *)

VARIABLES
    signups,    \* the UserSignup resources of the host cluster, by user
    banned,     \* the phone-number-hash labels of the BannedUser resources
    now,        \* the clock, in minutes
    pc,         \* where each request handler stands
    loc,        \* the local variables of each request handler
    resp,       \* the error each finished request returned
    sent,       \* the times at which a verification SMS was sent
    accepted,   \* the requests whose Update the host API server has accepted
    hdrs,       \* proxy: req.Header of the request the proxy handled last
    upstream,   \* proxy: the requests the member API server has received
    presp,      \* proxy: the status the proxy answered itself, 0 when the member cluster answered
    bannedEmails, \* proxy: the email-hash labels of the BannedUser resources
    method,     \* proxy: req.Method of the request the proxy handled last
    rhdrs,      \* proxy: the response header the proxy wrote itself
    pmsg,       \* proxy: the body the proxy wrote itself, as the parts of the message
    urlPath,    \* proxy: req.URL.Path, as "/" and the names between the slashes
    wsctx       \* proxy: what getWorkspaceContext returned for the request

vvars == <<signups, banned, now, pc, loc, resp, sent, accepted>>
pvars == <<hdrs, upstream, presp, bannedEmails, method, rhdrs, pmsg, urlPath, wsctx>>
vars == <<signups, banned, now, pc, loc, resp, sent, accepted, hdrs, upstream, presp, bannedEmails,
          method, rhdrs, pmsg, urlPath, wsctx>>

\* annotation and label keys of toolchainv1alpha1
UserSignupVerificationCounterAnnotationKey == "verification-counter"
UserSignupVerificationInitTimestampAnnotationKey == "verification-init-timestamp"
UserSignupVerificationCodeAnnotationKey == "verification-code"
UserVerificationExpiryAnnotationKey == "verification-expiry"
UserVerificationAttemptsAnnotationKey == "verification-attempts"
UserSignupActivationCounterAnnotationKey == "activation-counter"
UserSignupCaptchaScoreAnnotationKey == "captcha-score"
UserSignupUserPhoneHashLabelKey == "phone-number-hash"
BannedUserPhoneNumberHashLabelKey == "phone-number-hash"
UserSignupStateLabelKey == "state"
UserSignupStateLabelValueApproved == <<"approved">>
SocialEventUserSignupLabelKey == "social-event"

\* the five annotations of the phone verification
VerificationAnnotationKeys ==
    { UserSignupVerificationCodeAnnotationKey,
      UserVerificationAttemptsAnnotationKey,
      UserSignupVerificationCounterAnnotationKey,
      UserSignupVerificationInitTimestampAnnotationKey,
      UserVerificationExpiryAnnotationKey }

\* a map with no key
EmptyMap == [k \in {} |-> <<>>]

\* Go's m[k] on a map of strings: "" when the key is absent
Lookup(m, k) == IF k \in DOMAIN m THEN m[k] ELSE <<>>

\* for k, v := range g { f[k] = v }
SetAll(f, g) == [k \in DOMAIN f \cup DOMAIN g |-> IF k \in DOMAIN g THEN g[k] ELSE f[k]]

\* f[k] = v
SetKey(f, k, v) == [x \in DOMAIN f \cup {k} |-> IF x = k THEN v ELSE f[x]]

\* for _, k := range ks { delete(f, k) }
DeleteAll(f, ks) == [k \in DOMAIN f \ ks |-> f[k]]

\* no UserSignup of that name
NoSignup ==
    [ exists |-> FALSE, username |-> "", verificationRequired |-> FALSE,
      deactivated |-> FALSE, labels |-> EmptyMap, annotations |-> EmptyMap,
      resourceVersion |-> 0 ]

\* states.VerificationRequired, states.Deactivated
VerificationRequired(signup) == signup.verificationRequired
Deactivated(signup) == signup.deactivated

\* states.SetVerificationRequired(signup, val)
SetVerificationRequired(signup, val) == [signup EXCEPT !.verificationRequired = val]

\* hash.EncodeString: the MD5 of s as 32 hexadecimal characters, written as a
\* block "md5" that holds what was hashed
EncodeString(s) == <<"md5">> \o s

\* md5Matcher.Match: "(?i)[a-f0-9]{32}$" finds 32 hexadecimal characters at the end
md5MatcherMatch(s) == \E i \in 1..Len(s) : s[i] = "md5"

\* the errors of pkg/errors, as status code and message; nil has code 0
NoError == [code |-> 0, msg |-> ""]
Err(c, m) == [code |-> c, msg |-> m]

\* the error returned once every invocation of the update closure has failed;
\* errors.New carries no status, the controller answers 500
UpdateError == Err(500, "there was an error while updating your account")

\* the label value PhoneNumberAlreadyInUse lists by: the input when
\* md5Matcher matches it, its hash otherwise
PhoneLabelValue(phoneNumberOrHash) ==
    IF md5MatcherMatch(phoneNumberOrHash)
    THEN phoneNumberOrHash
    ELSE EncodeString(phoneNumberOrHash)

\* the loop over the hits without its condition: every hit rejects
PhoneNumberAlreadyInUseAnyHit(all, bannedHashes, username, phoneNumberOrHash, listOk) ==
    LET labelValue == PhoneLabelValue(phoneNumberOrHash)
        hits == { u \in DOMAIN all :
                    /\ all[u].exists
                    /\ Lookup(all[u].labels, UserSignupStateLabelKey) = UserSignupStateLabelValueApproved
                    /\ Lookup(all[u].labels, BannedUserPhoneNumberHashLabelKey) = labelValue }
    IN  IF ~listOk THEN Err(500, "failed listing banned users")
        ELSE IF labelValue \in bannedHashes THEN Err(403, "phone number already in use")
        ELSE IF hits /= {} THEN Err(403, "phone number already in use")
        ELSE NoError

\* PhoneNumberAlreadyInUse: the two List calls and the loop over the hits
PhoneNumberAlreadyInUse(all, bannedHashes, username, phoneNumberOrHash, listOk) ==
    LET labelValue == PhoneLabelValue(phoneNumberOrHash)
        hits == { u \in DOMAIN all :
                    /\ all[u].exists
                    /\ Lookup(all[u].labels, UserSignupStateLabelKey) = UserSignupStateLabelValueApproved
                    /\ Lookup(all[u].labels, BannedUserPhoneNumberHashLabelKey) = labelValue }
    IN  IF ~listOk THEN Err(500, "failed listing banned users")
        ELSE IF labelValue \in bannedHashes THEN Err(403, "phone number already in use")
        ELSE IF \E u \in hits : all[u].username /= username /\ ~Deactivated(all[u])
             THEN Err(403, "phone number already in use")
        ELSE NoError

(* ------------------------------------------------------------------ *)
(* InitVerification                                                    *)
(* ------------------------------------------------------------------ *)

\* the phone numbers a request may carry
Phones == { <<"P1">>, <<"P2">> }

\* what crypto/rand may deliver to generateVerificationCode
RandomBytes == { <<255, 0, 17, 128, 9, 10>> }

\* the code a UserSignup holds when a behaviour starts after an initiation
InitialCode == <<"1", "1", "1", "1", "1", "1">>

\* generateVerificationCode: each random byte modulo the charset length picks a digit
generateVerificationCode(buf) ==
    [i \in 1..codeLength |-> codeCharset[(buf[i] % Len(codeCharset)) + 1]]

\* the verification counter as InitVerification reads it: the counter, and the
\* annotation it sets when the stored value is no integer
InitCounterRead(signup) ==
    LET verificationCounter == Lookup(signup.annotations, UserSignupVerificationCounterAnnotationKey)
    IN  IF verificationCounter = <<>> THEN [counter |-> 0, annotationValues |-> EmptyMap]
        ELSE IF AtoiOk(verificationCounter)
             THEN [counter |-> AtoiValue(verificationCounter), annotationValues |-> EmptyMap]
        ELSE [ counter |-> DailyLimit,
               annotationValues |->
                   SetKey(EmptyMap, UserSignupVerificationCounterAnnotationKey, Itoa(DailyLimit)) ]

\* the window restarted only for a timestamp that parses: a missing or
\* unparseable one keeps the window open
InitWindowOverParsedOnly(signup, t) ==
    LET ts == Lookup(signup.annotations, UserSignupVerificationInitTimestampAnnotationKey)
    IN  TimestampParseOk(ts) /\ t > TimestampParseValue(ts) + Day

\* parseErr != nil || now.After(ts.Add(24*time.Hour))
InitWindowOver(signup, t) ==
    LET ts == Lookup(signup.annotations, UserSignupVerificationInitTimestampAnnotationKey)
    IN  ~TimestampParseOk(ts) \/ t > TimestampParseValue(ts) + Day

\* the limit check with > in place of >=: one initiation too many
InitLimitReachedAbove(counter) == counter > DailyLimit

\* counter >= dailyLimit
InitLimitReached(counter) == counter >= DailyLimit

\* the annotations of a new code with the counter left as it was read
InitCodeAnnotationsSameCounter(annotationValues, counter, t, verificationCode) ==
    SetKey(SetKey(SetKey(SetKey(annotationValues,
        UserVerificationAttemptsAnnotationKey, <<"0">>),
        UserSignupVerificationCounterAnnotationKey, Itoa(counter)),
        UserSignupVerificationCodeAnnotationKey, verificationCode),
        UserVerificationExpiryAnnotationKey, TimestampFormat(t + CodeExpiresInMin))

\* the annotations a request below the limit sets for its new code
InitCodeAnnotations(annotationValues, counter, t, verificationCode) ==
    SetKey(SetKey(SetKey(SetKey(annotationValues,
        UserVerificationAttemptsAnnotationKey, <<"0">>),
        UserSignupVerificationCounterAnnotationKey, Itoa(counter + 1)),
        UserSignupVerificationCodeAnnotationKey, verificationCode),
        UserVerificationExpiryAnnotationKey, TimestampFormat(t + CodeExpiresInMin))

\* the annotations of a new code set without the guard on initError
InitAnnotationsUnguarded(initError, annotationValues, counter, t, verificationCode) ==
    InitCodeAnnotations(annotationValues, counter, t, verificationCode)

\* if initError == nil: the annotations of the new code are set only below the limit
InitAnnotations(initError, annotationValues, counter, t, verificationCode) ==
    IF initError = NoError
    THEN InitCodeAnnotations(annotationValues, counter, t, verificationCode)
    ELSE annotationValues

\* InitVerification from the counter to the decision to send: the labels and
\* annotations to set, and initError
InitVerificationPlan(signup, e164PhoneNumber, t, verificationCode) ==
    LET read == InitCounterRead(signup)
        over == InitWindowOver(signup, t)
        counter == IF over THEN 0 ELSE read.counter
        windowValues ==
            IF over
            THEN SetKey(SetKey(read.annotationValues,
                     UserSignupVerificationInitTimestampAnnotationKey, TimestampFormat(t)),
                     UserSignupVerificationCounterAnnotationKey, <<"0">>)
            ELSE read.annotationValues
        initError == IF InitLimitReached(counter)
                     THEN Err(403, "daily limit exceeded") ELSE NoError
    IN  [ initError |-> initError,
          labelValues |-> SetKey(EmptyMap, UserSignupUserPhoneHashLabelKey,
                                 EncodeString(e164PhoneNumber)),
          annotationValues |->
              InitAnnotations(initError, windowValues, counter, t, verificationCode) ]

\* the update closure of InitVerification, applied to the copy it has read
InitDoUpdate(signup, labelValues, annotationValues) ==
    [signup EXCEPT !.labels = SetAll(@, labelValues),
                   !.annotations = SetAll(@, annotationValues)]

(* ------------------------------------------------------------------ *)
(* VerifyPhoneCode                                                     *)
(* ------------------------------------------------------------------ *)

\* cfg.Verification().CaptchaRequiredScore(), in tenths
CaptchaRequiredScore == 5

\* cfg.Verification().CaptchaAllowLowScoreReactivation()
CaptchaAllowLowScoreReactivation == TRUE

\* strconv.ParseFloat on the scores the model stores, "d.d": no error
ParseFloatOk(s) == Len(s) = 3 /\ IsDigit(s[1]) /\ s[2] = "." /\ IsDigit(s[3])

\* the score strconv.ParseFloat returns, in tenths
ParseFloatValue(s) == 10 * DigitValue(s[1]) + DigitValue(s[3])

\* checkRequiredManualApproval
checkRequiredManualApproval(signup) ==
    LET captchaScore == Lookup(signup.annotations, UserSignupCaptchaScoreAnnotationKey)
    IN  IF UserSignupCaptchaScoreAnnotationKey \in DOMAIN signup.annotations
           /\ ParseFloatOk(captchaScore)
           /\ ParseFloatValue(captchaScore) < CaptchaRequiredScore
        THEN Err(403, "verification is not available at this time")
        ELSE NoError

\* VerifyPhoneCode, "check if it's a reactivation": the error of the captcha gate
VerifyCaptchaGate(signup) ==
    LET activationCounterString == Lookup(signup.annotations, UserSignupActivationCounterAnnotationKey)
    IN  IF UserSignupActivationCounterAnnotationKey \in DOMAIN signup.annotations
           /\ CaptchaAllowLowScoreReactivation
        THEN IF ~AtoiOk(activationCounterString) THEN checkRequiredManualApproval(signup)
             ELSE IF AtoiValue(activationCounterString) = 1 THEN checkRequiredManualApproval(signup)
             ELSE NoError
        ELSE checkRequiredManualApproval(signup)

\* the annotations to delete with the expiry forgotten
VerifyAnnotationsToDeleteNoExpiry ==
    { UserSignupVerificationCodeAnnotationKey,
      UserVerificationAttemptsAnnotationKey,
      UserSignupVerificationCounterAnnotationKey,
      UserSignupVerificationInitTimestampAnnotationKey }

\* the annotations VerifyPhoneCode deletes once the code has matched
VerifyAnnotationsToDelete ==
    { UserSignupVerificationCodeAnnotationKey,
      UserVerificationAttemptsAnnotationKey,
      UserSignupVerificationCounterAnnotationKey,
      UserSignupVerificationInitTimestampAnnotationKey,
      UserVerificationExpiryAnnotationKey }

\* the attempts check with > in place of >=: one attempt too many
AttemptsReachedAbove(attemptsMade) == attemptsMade > AttemptsAllowed

\* attemptsMade >= cfg.Verification().AttemptsAllowed()
AttemptsReached(attemptsMade) == attemptsMade >= AttemptsAllowed

\* a wrong code counted twice
MismatchAttemptsTwice(attemptsMade) == attemptsMade + 2

\* attemptsMade++ on a code that does not match
MismatchAttempts(attemptsMade) == attemptsMade + 1

\* the checks with the comparison of the code before the expiry
VerifyPhoneCodePlanCodeFirst(signup, code, t) ==
    LET attemptsString == Lookup(signup.annotations, UserVerificationAttemptsAnnotationKey)
        convOk == AtoiOk(attemptsString)
        attemptsRead == IF convOk THEN AtoiValue(attemptsString) ELSE AttemptsAllowed
        convValues == IF convOk THEN EmptyMap
                      ELSE SetKey(EmptyMap, UserVerificationAttemptsAnnotationKey, Itoa(attemptsRead))
        exp == Lookup(signup.annotations, UserVerificationExpiryAnnotationKey)
        mismatch == code /= Lookup(signup.annotations, UserSignupVerificationCodeAnnotationKey)
        verificationErr ==
            IF AttemptsReached(attemptsRead) THEN Err(429, "too many verification attempts")
            ELSE IF mismatch THEN Err(403, "the provided code is invalid")
            ELSE IF ~TimestampParseOk(exp) THEN Err(500, "error parsing expiry timestamp")
            ELSE IF t > TimestampParseValue(exp) THEN Err(403, "verification code expired")
            ELSE NoError
        counted == verificationErr = Err(403, "the provided code is invalid")
    IN  [ verificationErr |-> verificationErr,
          attemptsMade |-> IF counted THEN MismatchAttempts(attemptsRead) ELSE attemptsRead,
          annotationValues |->
              IF counted
              THEN SetKey(convValues, UserVerificationAttemptsAnnotationKey,
                          Itoa(MismatchAttempts(attemptsRead)))
              ELSE convValues,
          annotationsToDelete |-> IF verificationErr = NoError THEN VerifyAnnotationsToDelete ELSE {},
          unsetVerificationRequired |-> verificationErr = NoError ]

\* VerifyPhoneCode from the attempts annotation to verificationErr: the checks
\* in their order, and the annotations to set and to delete
VerifyPhoneCodePlan(signup, code, t) ==
    LET attemptsString == Lookup(signup.annotations, UserVerificationAttemptsAnnotationKey)
        convOk == AtoiOk(attemptsString)
        attemptsRead == IF convOk THEN AtoiValue(attemptsString) ELSE AttemptsAllowed
        convValues == IF convOk THEN EmptyMap
                      ELSE SetKey(EmptyMap, UserVerificationAttemptsAnnotationKey, Itoa(attemptsRead))
        exp == Lookup(signup.annotations, UserVerificationExpiryAnnotationKey)
        mismatch == code /= Lookup(signup.annotations, UserSignupVerificationCodeAnnotationKey)
        verificationErr ==
            IF AttemptsReached(attemptsRead) THEN Err(429, "too many verification attempts")
            ELSE IF ~TimestampParseOk(exp) THEN Err(500, "error parsing expiry timestamp")
            ELSE IF t > TimestampParseValue(exp) THEN Err(403, "verification code expired")
            ELSE IF mismatch THEN Err(403, "the provided code is invalid")
            ELSE NoError
        counted == verificationErr = Err(403, "the provided code is invalid")
    IN  [ verificationErr |-> verificationErr,
          attemptsMade |-> IF counted THEN MismatchAttempts(attemptsRead) ELSE attemptsRead,
          annotationValues |->
              IF counted
              THEN SetKey(convValues, UserVerificationAttemptsAnnotationKey,
                          Itoa(MismatchAttempts(attemptsRead)))
              ELSE convValues,
          annotationsToDelete |-> IF verificationErr = NoError THEN VerifyAnnotationsToDelete ELSE {},
          unsetVerificationRequired |-> verificationErr = NoError ]

\* the closure with the state bit forgotten: the annotations go, verification stays required
VerifyDoUpdateKeepsRequired(signup, unsetVerificationRequired, annotationValues, annotationsToDelete) ==
    [signup EXCEPT !.annotations = DeleteAll(SetAll(@, annotationValues), annotationsToDelete)]

\* the update closure of VerifyPhoneCode, applied to the copy it has read
VerifyDoUpdate(signup, unsetVerificationRequired, annotationValues, annotationsToDelete) ==
    LET s1 == IF unsetVerificationRequired THEN SetVerificationRequired(signup, FALSE) ELSE signup
    IN  [s1 EXCEPT !.annotations = DeleteAll(SetAll(@, annotationValues), annotationsToDelete)]

(* ------------------------------------------------------------------ *)
(* VerifyActivationCode                                                *)
(* ------------------------------------------------------------------ *)

\* the activation codes a request may carry
ActivationCodes == { <<"event">>, <<"full">>, <<"nosuch">> }

\* the SocialEvent resources of the host cluster
SocialEventNames == { <<"event">>, <<"full">>, <<"later">> }

SocialEvent(name) ==
    IF name = <<"event">>
    THEN [startTime |-> 0, endTime |-> Day, maxAttendees |-> 10, activationCount |-> 0]
    ELSE IF name = <<"later">>
    THEN [startTime |-> CodeExpiresInMin + 1, endTime |-> Day, maxAttendees |-> 10,
          activationCount |-> 0]
    ELSE [startTime |-> 0, endTime |-> Day, maxAttendees |-> 10, activationCount |-> 10]

\* signuppkg.GetAndValidateSocialEvent: the event exists, has started, has not
\* ended and has room
GetAndValidateSocialEvent(code, t) ==
    IF code \notin SocialEventNames THEN Err(403, "invalid code")
    ELSE IF t < SocialEvent(code).startTime THEN Err(403, "inactive code")
    ELSE IF t > SocialEvent(code).endTime THEN Err(403, "expired code")
    ELSE IF SocialEvent(code).activationCount >= SocialEvent(code).maxAttendees
         THEN Err(403, "overbooked code")
    ELSE NoError

\* signuppkg.UpdateUserSignupWithSocialEvent
UpdateUserSignupWithSocialEvent(code, signup) ==
    [signup EXCEPT !.verificationRequired = FALSE,
                   !.deactivated = FALSE,
                   !.labels = SetKey(@, SocialEventUserSignupLabelKey, code)]

\* checkAttempts: the attempts made and the error
checkAttempts(signup) ==
    LET v == Lookup(signup.annotations, UserVerificationAttemptsAnnotationKey)
    IN  IF v = <<>> THEN [attemptsMade |-> 0, err |-> NoError]
        ELSE IF ~AtoiOk(v) THEN [attemptsMade |-> -1, err |-> Err(500, "error converting annotation")]
        ELSE IF AttemptsReached(AtoiValue(v))
             THEN [attemptsMade |-> AtoiValue(v), err |-> Err(429, "too many verification attempts")]
        ELSE [attemptsMade |-> AtoiValue(v), err |-> NoError]

\* the attempts the update closure of VerifyActivationCode counts when the
\* event is not valid: attemptsMade++ on the variable the closure captured
ActivationAttempts(attemptsMade) == attemptsMade + 1

\* the closure of VerifyActivationCode leaving the attempts annotation in place
ActivationDoUpdateKeepsAttempts(signup, code, eventErr, attemptsMade) ==
    IF eventErr /= NoError
    THEN [signup EXCEPT !.annotations =
              SetKey(@, UserVerificationAttemptsAnnotationKey, Itoa(attemptsMade))]
    ELSE UpdateUserSignupWithSocialEvent(code, signup)

\* the update closure of VerifyActivationCode, applied to the copy it has read
ActivationDoUpdate(signup, code, eventErr, attemptsMade) ==
    IF eventErr /= NoError
    THEN [signup EXCEPT !.annotations =
              SetKey(@, UserVerificationAttemptsAnnotationKey, Itoa(attemptsMade))]
    ELSE LET s1 == UpdateUserSignupWithSocialEvent(code, signup)
         IN  [s1 EXCEPT !.annotations = DeleteAll(@, {UserVerificationAttemptsAnnotationKey})]

\* SignupService.Signup with the social event in the context: a new UserSignup
\* to which the event is applied, or the error of the event's validation
Signup(username, code, t) ==
    IF GetAndValidateSocialEvent(code, t) /= NoError THEN NoSignup
    ELSE UpdateUserSignupWithSocialEvent(code,
             [NoSignup EXCEPT !.exists = TRUE, !.username = username,
                              !.verificationRequired = TRUE, !.resourceVersion = 1])

(* ------------------------------------------------------------------ *)
(* The request handlers                                                *)
(* ------------------------------------------------------------------ *)

\* the local variables of a handler that serves no request
IdleLoc ==
    [ op |-> "none", username |-> "", phone |-> <<>>, code |-> <<>>,
      labelValues |-> EmptyMap, annotationValues |-> EmptyMap,
      annotationsToDelete |-> {}, unsetVerificationRequired |-> FALSE,
      err |-> NoError, eventErr |-> NoError, attemptsMade |-> 0, tries |-> 0,
      readVersion |-> 0, seen |-> NoSignup, fresh |-> NoSignup ]

\* request p arrives: the first one first
Takes(p) ==
    /\ pc[p] = "idle"
    /\ p \in FirstProcs \/ \A q \in FirstProcs : pc[q] /= "idle"

\* a handler returns err to its caller; the operation, the user and the code
\* it was called with, the result of its validation and the error stay readable
Return(p, l, err) ==
    /\ pc' = [pc EXCEPT ![p] = "done"]
    /\ loc' = [loc EXCEPT ![p] = [IdleLoc EXCEPT !.op = l.op, !.username = l.username,
                                              !.code = l.code, !.err = l.err]]
    /\ resp' = [resp EXCEPT ![p] = err]

\* a handler goes on to its step at
Goto(p, l, at) ==
    /\ pc' = [pc EXCEPT ![p] = at]
    /\ loc' = [loc EXCEPT ![p] = l]
    /\ UNCHANGED resp

\* the faults of the host API a first read may meet
Faults == { "none", "get", "list" }

\* InitVerification without the check that verification is required
InitVerificationUnchecked(p) ==
    \E e164PhoneNumber \in Phones, buf \in RandomBytes, fault \in Faults :
        LET signup == signups[Requester]
            l0 == [IdleLoc EXCEPT !.op = "init", !.username = Requester,
                                  !.phone = e164PhoneNumber, !.seen = signup]
            inUse == PhoneNumberAlreadyInUse(signups, banned, Requester, e164PhoneNumber, fault /= "list")
            plan == InitVerificationPlan(signup, e164PhoneNumber, now, generateVerificationCode(buf))
            l1 == [l0 EXCEPT !.labelValues = plan.labelValues,
                             !.annotationValues = plan.annotationValues,
                             !.err = plan.initError]
        IN  /\ Takes(p)
            /\ IF fault = "get" THEN Return(p, l0, Err(500, "error retrieving usersignup"))
               ELSE IF ~signup.exists THEN Return(p, l0, Err(404, "usersignup not found"))
               ELSE IF inUse.code = 403 THEN Return(p, l0, Err(403, "phone number already in use"))
               ELSE IF inUse /= NoError
                    THEN Return(p, l0, Err(500, "could not lookup users by phone number"))
               ELSE IF plan.initError = NoError THEN Goto(p, l1, "send")
               ELSE Goto(p, l1, "get")
            /\ UNCHANGED <<signups, banned, now, sent, accepted, pvars>>

\* InitVerification for one of usernames up to the decision to send: the Get,
\* the check that verification is required, the phone check, the counter and
\* the window
InitVerificationOf(p, usernames) ==
    \E username \in usernames, e164PhoneNumber \in Phones, buf \in RandomBytes, fault \in Faults :
        LET signup == signups[username]
            l0 == [IdleLoc EXCEPT !.op = "init", !.username = username,
                                  !.phone = e164PhoneNumber, !.seen = signup]
            inUse == PhoneNumberAlreadyInUse(signups, banned, username, e164PhoneNumber, fault /= "list")
            plan == InitVerificationPlan(signup, e164PhoneNumber, now, generateVerificationCode(buf))
            l1 == [l0 EXCEPT !.labelValues = plan.labelValues,
                             !.annotationValues = plan.annotationValues,
                             !.err = plan.initError]
        IN  /\ Takes(p)
            /\ IF fault = "get" THEN Return(p, l0, Err(500, "error retrieving usersignup"))
               ELSE IF ~signup.exists THEN Return(p, l0, Err(404, "usersignup not found"))
               ELSE IF ~VerificationRequired(signup)
                    THEN Return(p, l0, Err(400, "verification code will not be sent"))
               ELSE IF inUse.code = 403 THEN Return(p, l0, Err(403, "phone number already in use"))
               ELSE IF inUse /= NoError
                    THEN Return(p, l0, Err(500, "could not lookup users by phone number"))
               ELSE IF plan.initError = NoError THEN Goto(p, l1, "send")
               ELSE Goto(p, l1, "get")
            /\ UNCHANGED <<signups, banned, now, sent, accepted, pvars>>

\* InitVerification for the user whose requests are modelled
InitVerification(p) == InitVerificationOf(p, { Requester })

\* the error of the send ignored: the request goes on to its update
SendNotificationIgnoringError(p) ==
    \E ok \in BOOLEAN :
        /\ pc[p] = "send"
        /\ sent' = IF ok THEN Append(sent, now) ELSE sent
        /\ Goto(p, loc[p], "get")
        /\ UNCHANGED <<signups, banned, now, accepted, pvars>>

\* NotificationService.SendNotification: the SMS leaves, or the request dies
SendNotification(p) ==
    \E ok \in BOOLEAN :
        /\ pc[p] = "send"
        /\ IF ok
           THEN /\ sent' = Append(sent, now)
                /\ Goto(p, loc[p], "get")
           ELSE /\ UNCHANGED sent
                /\ Return(p, loc[p], Err(500, "error while sending verification code"))
        /\ UNCHANGED <<signups, banned, now, accepted, pvars>>

\* the codes a VerifyPhoneCode request may carry: those the service generates, and another
SuppliedCodes ==
    { generateVerificationCode(buf) : buf \in RandomBytes }
        \cup { InitialCode, <<"0", "0", "0", "0", "0", "0">> }

\* VerifyPhoneCode for one of usernames up to verificationErr: the Get, the
\* captcha gate, the phone check, the attempts, the expiry and the comparison
\* of the code
VerifyPhoneCodeOf(p, usernames) ==
    \E username \in usernames, code \in SuppliedCodes, fault \in Faults :
        LET signup == signups[username]
            l0 == [IdleLoc EXCEPT !.op = "verifyPhone", !.username = username,
                                  !.code = code, !.seen = signup]
            gate == VerifyCaptchaGate(signup)
            inUse == PhoneNumberAlreadyInUse(signups, banned, username,
                         Lookup(signup.labels, UserSignupUserPhoneHashLabelKey), fault /= "list")
            plan == VerifyPhoneCodePlan(signup, code, now)
            l1 == [l0 EXCEPT !.annotationValues = plan.annotationValues,
                             !.annotationsToDelete = plan.annotationsToDelete,
                             !.unsetVerificationRequired = plan.unsetVerificationRequired,
                             !.attemptsMade = plan.attemptsMade,
                             !.err = plan.verificationErr]
        IN  /\ Takes(p)
            /\ IF fault = "get" THEN Return(p, l0, Err(500, "error retrieving usersignup"))
               ELSE IF ~signup.exists THEN Return(p, l0, Err(404, "user not found"))
               ELSE IF gate /= NoError THEN Return(p, l0, gate)
               ELSE IF inUse /= NoError THEN Return(p, l0, Err(400, "phone number already in use"))
               ELSE Goto(p, l1, "get")
            /\ UNCHANGED <<signups, banned, now, sent, accepted, pvars>>

\* VerifyPhoneCode for the user whose requests are modelled
VerifyPhoneCode(p) == VerifyPhoneCodeOf(p, { Requester })

\* VerifyActivationCode answering 404 for a user that has no UserSignup,
\* without the sign-up
VerifyActivationCodeNoSignup(p) ==
    \E code \in ActivationCodes, fault \in { "none", "get" } :
        LET signup == signups[Requester]
            l0 == [IdleLoc EXCEPT !.op = "verifyActivation", !.username = Requester,
                                  !.code = code, !.seen = signup]
            checked == checkAttempts(signup)
            l1 == [l0 EXCEPT !.attemptsMade = checked.attemptsMade]
        IN  /\ Takes(p)
            /\ IF fault = "get" THEN Return(p, l0, Err(500, "error retrieving usersignup"))
               ELSE IF ~signup.exists THEN Return(p, l0, Err(404, "usersignup not found"))
               ELSE IF checked.err /= NoError THEN Return(p, l1, checked.err)
               ELSE Goto(p, l1, "get")
            /\ UNCHANGED <<signups, banned, now, sent, accepted, pvars>>

\* VerifyActivationCode with one of codes, up to the update: the Get, the
\* sign-up of a user that has no UserSignup, and checkAttempts
VerifyActivationCodeOf(p, codes) ==
    \E code \in codes, fault \in { "none", "get" } :
        LET signup == signups[Requester]
            l0 == [IdleLoc EXCEPT !.op = "verifyActivation", !.username = Requester,
                                  !.code = code, !.seen = signup]
            created == Signup(Requester, code, now)
            checked == checkAttempts(signup)
            l1 == [l0 EXCEPT !.attemptsMade = checked.attemptsMade]
        IN  /\ Takes(p)
            /\ IF fault = "get"
               THEN /\ Return(p, l0, Err(500, "error retrieving usersignup"))
                    /\ UNCHANGED signups
               ELSE IF ~signup.exists
               THEN /\ Return(p, l0, GetAndValidateSocialEvent(code, now))
                    /\ signups' = IF created.exists
                                  THEN [signups EXCEPT ![Requester] = created]
                                  ELSE signups
               ELSE IF checked.err /= NoError
               THEN /\ Return(p, l1, checked.err)
                    /\ UNCHANGED signups
               ELSE /\ Goto(p, l1, "get")
                    /\ UNCHANGED signups
            /\ UNCHANGED <<banned, now, sent, accepted, pvars>>

\* VerifyActivationCode with the code of an event that is open or full, or of none
VerifyActivationCode(p) == VerifyActivationCodeOf(p, ActivationCodes)

\* the code of an event that has not started yet
LaterCodes == { <<"later">> }

\* VerifyActivationCode with the code of an event that opens while requests run
VerifyActivationCodeLater(p) == VerifyActivationCodeOf(p, LaterCodes)

(* ------------------------------------------------------------------ *)
(* PollUpdateSignup and the update closures                            *)
(* ------------------------------------------------------------------ *)

\* the error PollUpdateSignup returns when every invocation has failed
PollError == Err(500, "unable to update user signup")

\* every operation answering a failed update with the generic error
UpdateFailedGeneric(l) == UpdateError

\* every operation preferring the error of its validation, as VerifyActivationCode does
UpdateFailedValidation(l) == IF l.err = NoError THEN PollError ELSE l.err

\* the error of the update dropped: the operation returns what its validation found
UpdateFailedSilently(l) == l.err

\* what the operation returns once PollUpdateSignup has given up
UpdateFailed(l) ==
    IF l.op = "verifyActivation"
    THEN (IF l.err = NoError THEN PollError ELSE l.err)
    ELSE UpdateError

\* what the operation returns once an Update has been accepted
UpdateDone(l) == l.err

\* PollUpdateSignup after a failed invocation of the closure: again, until
\* the closure has been invoked MaxRetries times
PollAgain(l) == l.tries < MaxRetries

AfterFailure(p, l) ==
    IF PollAgain(l) THEN Goto(p, l, "get") ELSE Return(p, l, UpdateFailed(l))

\* the update closure up to its Update: the Get of a fresh copy and, in
\* VerifyActivationCode, the validation of the social event
UpdateGet(p) ==
    \E ok \in BOOLEAN :
        LET l0 == [loc[p] EXCEPT !.tries = @ + 1]
            eventErr == GetAndValidateSocialEvent(l0.code, now)
            l1 == [l0 EXCEPT !.fresh = signups[l0.username],
                             !.readVersion = signups[l0.username].resourceVersion]
            l2 == IF l0.op /= "verifyActivation" THEN l1
                  ELSE IF eventErr /= NoError
                       THEN [l1 EXCEPT !.attemptsMade = ActivationAttempts(@),
                                       !.err = eventErr, !.eventErr = eventErr]
                  ELSE [l1 EXCEPT !.eventErr = NoError]
        IN  /\ pc[p] = "get"
            /\ IF ok /\ signups[l0.username].exists THEN Goto(p, l2, "put") ELSE AfterFailure(p, l0)
            /\ UNCHANGED <<signups, banned, now, sent, accepted, pvars>>

\* the closure changing the copy the operation read first, under the version
\* of the copy it has just read
DoUpdateOnFirstCopy(l, signup) ==
    LET first == [l.seen EXCEPT !.resourceVersion = signup.resourceVersion]
    IN  IF l.op = "init" THEN InitDoUpdate(first, l.labelValues, l.annotationValues)
        ELSE IF l.op = "verifyPhone"
             THEN VerifyDoUpdate(first, l.unsetVerificationRequired, l.annotationValues,
                                 l.annotationsToDelete)
        ELSE ActivationDoUpdate(first, l.code, l.eventErr, l.attemptsMade)

\* the UserSignup the closure hands to Update
DoUpdate(l, signup) ==
    IF l.op = "init" THEN InitDoUpdate(signup, l.labelValues, l.annotationValues)
    ELSE IF l.op = "verifyPhone"
         THEN VerifyDoUpdate(signup, l.unsetVerificationRequired, l.annotationValues,
                             l.annotationsToDelete)
    ELSE ActivationDoUpdate(signup, l.code, l.eventErr, l.attemptsMade)

\* the host API server accepts an Update of the version it holds
UpdateAccepted(l, signup) == l.readVersion = signup.resourceVersion

\* the Update of the closure, with the copy the closure has read and changed:
\* accepted, or refused for a conflict or a fault
UpdatePut(p) ==
    \E ok \in BOOLEAN :
        LET signup == signups[loc[p].username]
            updated == DoUpdate(loc[p], loc[p].fresh)
            stored == IF updated = loc[p].fresh THEN signup
                      ELSE [updated EXCEPT !.resourceVersion = signup.resourceVersion + 1]
        IN  /\ pc[p] = "put"
            /\ IF ok /\ UpdateAccepted(loc[p], signup)
               THEN /\ signups' = [signups EXCEPT ![loc[p].username] = stored]
                    /\ accepted' = accepted \cup {p}
                    /\ Return(p, loc[p], UpdateDone(loc[p]))
               ELSE /\ UNCHANGED <<signups, accepted>>
                    /\ AfterFailure(p, loc[p])
            /\ UNCHANGED <<banned, now, sent, pvars>>

\* time passes
Tick ==
    \E t \in TimePoints :
        /\ t > now
        /\ now' = t
        /\ UNCHANGED <<signups, banned, pc, loc, resp, sent, accepted, pvars>>

(* ------------------------------------------------------------------ *)
(* The reverse proxy                                                   *)
(* ------------------------------------------------------------------ *)

\* A header name is the sequence of its words (the "-" between them is not
\* written), a header value a sequence of atoms. The words of the names, as a
\* client may write them: lower case, canonical, upper case
CaseTable ==
    { <<"authorization", "Authorization", "AUTHORIZATION">>,
      <<"impersonate", "Impersonate", "IMPERSONATE">>,
      <<"user", "User", "USER">>,
      <<"group", "Group", "GROUP">>,
      <<"extra", "Extra", "EXTRA">>,
      <<"scopes", "Scopes", "SCOPES">>,
      <<"agent", "Agent", "AGENT">>,
      <<"connection", "Connection", "CONNECTION">>,
      <<"proxy", "Proxy", "PROXY">>,
      <<"keep", "Keep", "KEEP">>,
      <<"alive", "Alive", "ALIVE">>,
      <<"upgrade", "Upgrade", "UPGRADE">> }

\* one word of textproto.CanonicalMIMEHeaderKey: first letter upper case, the rest lower case
CanonicalWord(w) ==
    IF \E t \in CaseTable : w \in { t[1], t[2], t[3] }
    THEN (CHOOSE t \in CaseTable : w \in { t[1], t[2], t[3] })[2]
    ELSE w

\* textproto.CanonicalMIMEHeaderKey, which http.Header's Get, Set and Del apply to the key
CanonicalMIMEHeaderKey(name) == [i \in DOMAIN name |-> CanonicalWord(name[i])]

\* the elements of a sequence
Range(s) == { s[i] : i \in DOMAIN s }

\* http.Header.Get: the first value of the key, "" when it has none
HeaderGet(h, key) ==
    LET k == CanonicalMIMEHeaderKey(key)
    IN  IF k \in DOMAIN h /\ Len(h[k]) > 0 THEN h[k][1] ELSE <<>>

\* http.Header.Set: the key holds the one value
HeaderSet(h, key, value) == SetKey(h, CanonicalMIMEHeaderKey(key), <<value>>)

\* http.Header.Del
HeaderDel(h, keys) == DeleteAll(h, { CanonicalMIMEHeaderKey(k) : k \in keys })

RECURSIVE ReadMIMEHeader(_)
\* the server reads the header lines of the request into req.Header: the keys
\* canonical, the values of one key in the order of the lines
ReadMIMEHeader(lines) ==
    IF lines = <<>> THEN EmptyMap
    ELSE LET h == ReadMIMEHeader(SubSeq(lines, 1, Len(lines) - 1))
             k == CanonicalMIMEHeaderKey(lines[Len(lines)].name)
         IN  SetKey(h, k, Append(Lookup(h, k), lines[Len(lines)].value))

RECURSIVE Split(_, _)
\* strings.Split(s, sep): the pieces of s between the occurrences of sep
Split(s, sep) ==
    IF \A i \in DOMAIN s : s[i] /= sep THEN << s >>
    ELSE LET i == CHOOSE i \in DOMAIN s : s[i] = sep /\ \A j \in 1..(i - 1) : s[j] /= sep
         IN  << SubSeq(s, 1, i - 1) >> \o Split(SubSeq(s, i + 1, Len(s)), sep)

\* the check of the pieces off by one: a header with one bearer token is refused
extractUserTokenThirdPiece(header) ==
    LET a == HeaderGet(header, <<"Authorization">>)
        token == Split(a, "Bearer ")
    IN  IF Len(token) < 3 THEN [err |-> Err(401, "no token found"), token |-> <<>>]
        ELSE [err |-> NoError, token |-> token[2]]

\* the check of the pieces forgotten: the last piece is the token
extractUserTokenUnchecked(header) ==
    LET a == HeaderGet(header, <<"Authorization">>)
        token == Split(a, "Bearer ")
    IN  [err |-> NoError, token |-> token[Len(token)]]

\* extractUserToken: the second piece of the Authorization header split at "Bearer "
extractUserToken(header) ==
    LET a == HeaderGet(header, <<"Authorization">>)
        token == Split(a, "Bearer ")
    IN  IF Len(token) < 2 THEN [err |-> Err(401, "no token found"), token |-> <<>>]
        ELSE [err |-> NoError, token |-> token[2]]

\* strings.HasPrefix, strings.TrimPrefix
HasPrefix(s, prefix) == Len(s) >= Len(prefix) /\ SubSeq(s, 1, Len(prefix)) = prefix
TrimPrefix(s, prefix) == IF HasPrefix(s, prefix) THEN SubSeq(s, Len(prefix) + 1, Len(s)) ELSE s

\* strings.TrimSpace on one segment of a path: a blank segment becomes empty
TrimSpace(segment) == IF segment = <<" ">> THEN <<>> ELSE segment

\* the prefix of a path that names a proxy plugin
pluginsEndpoint == <<"/", "plugins", "/">>

\* the singular in place of the plural
workspacesEndpointSingular == <<"/", "workspace", "/">>

\* the prefix of a path that names a workspace
workspacesEndpoint == <<"/", "workspaces", "/">>

\* the errors of getWorkspaceContext, as the parts of the message
NotProxiedRoute(path) == << "path", path, "not a proxied route request" >>
TooFewSegments(path, format) ==
    << "workspace request path has too few segments", path, "expected path format:", format >>

\* no call of getWorkspaceContext yet
NoContext == [called |-> FALSE, proxyPluginName |-> <<>>, workspace |-> <<>>, err |-> <<>>]

\* what getWorkspaceContext returns, beside the path it leaves in the request
Context(proxyPluginName, workspace, err, path) ==
    [called |-> TRUE, proxyPluginName |-> proxyPluginName, workspace |-> workspace,
     err |-> err, path |-> path]

\* the second half of getWorkspaceContext: the workspace segment of the path
\* that is left once the plugin segment is gone
getWorkspaceSegment(proxyPluginName, path) ==
    LET segments == Split(path, "/")
    IN  IF ~HasPrefix(path, workspacesEndpoint)
        THEN Context(proxyPluginName, <<>>, <<>>, path)
        ELSE IF Len(segments) < 3
        THEN Context(<<>>, <<>>,
                     TooFewSegments(path, "/workspaces/<workspace_name>/<optional path>"), path)
        ELSE IF Len(segments) = 3 /\ proxyPluginName = <<>>
        THEN Context(<<>>, <<>>, TooFewSegments(path, "/workspaces/<workspace_name>/api/..."), path)
        ELSE IF segments[1] /= <<>> \/ TrimSpace(segments[3]) = <<>>
        THEN Context(<<>>, <<>>,
                     TooFewSegments(path, "/workspaces/<workspace_name>/<optional path>"), path)
        ELSE Context(proxyPluginName, segments[3], <<>>,
                     TrimPrefix(path, <<"/", "workspaces", "/">> \o segments[3]))

\* getWorkspaceContext: the plugin segment, then the workspace segment
getWorkspaceContext(path) ==
    LET segments == Split(path, "/")
    IN  IF ~HasPrefix(path, pluginsEndpoint) THEN getWorkspaceSegment(<<>>, path)
        ELSE IF Len(segments) < 3 \/ segments[1] /= <<>> \/ TrimSpace(segments[3]) = <<>>
        THEN Context(<<>>, <<>>, NotProxiedRoute(path), path)
        ELSE getWorkspaceSegment(segments[3],
                 TrimPrefix(path, <<"/", "plugins", "/">> \o segments[3]))

\* the tokens the identity provider has signed
SignedTokens ==
    { <<"tokenJohn">>, <<"tokenSmith">>, <<"tokenGhost">>, <<"tokenAlice">>,
      <<"tokenNoSub">>, <<"tokenNoEmail">> }

\* the sub and email claims of a signed token
TokenClaims(userToken) ==
    IF userToken = <<"tokenJohn">> THEN [Subject |-> "johnny", Email |-> <<"johnny@redhat.com">>]
    ELSE IF userToken = <<"tokenSmith">> THEN [Subject |-> "smith2", Email |-> <<"smith2@redhat.com">>]
    ELSE IF userToken = <<"tokenGhost">> THEN [Subject |-> "ghost", Email |-> <<"ghost@redhat.com">>]
    ELSE IF userToken = <<"tokenAlice">> THEN [Subject |-> "alice", Email |-> <<"alice@redhat.com">>]
    ELSE IF userToken = <<"tokenNoSub">> THEN [Subject |-> "", Email |-> <<"nosub@redhat.com">>]
    ELSE [Subject |-> "nomail", Email |-> <<>>]

\* tokenParser.FromString: the token with its subject and email, or an error
FromString(userToken) ==
    IF userToken \notin SignedTokens
    THEN [err |-> Err(401, "unable to extract userID from token"), Subject |-> "", Email |-> <<>>]
    ELSE IF TokenClaims(userToken).Subject = ""
    THEN [err |-> Err(401, "subject missing"), Subject |-> "", Email |-> <<>>]
    ELSE IF TokenClaims(userToken).Email = <<>>
    THEN [err |-> Err(401, "email missing"), Subject |-> "", Email |-> <<>>]
    ELSE [err |-> NoError,
          Subject |-> TokenClaims(userToken).Subject,
          Email |-> TokenClaims(userToken).Email]

\* the member clusters and the token of the proxy's service account on each
SAToken(host) == IF host = "member-1" THEN <<"clusterSAToken1">> ELSE <<"clusterSAToken2">>

\* UserNamespaces.GetNamespace: the member cluster the user is provisioned on
GetNamespace(userID) ==
    IF userID \in { "johnny", "alice" }
    THEN [err |-> NoError, APIURL |-> "member-1", SAToken |-> SAToken("member-1")]
    ELSE IF userID = "smith2"
    THEN [err |-> NoError, APIURL |-> "member-2", SAToken |-> SAToken("member-2")]
    ELSE [err |-> Err(500, "user is not provisioned (yet)"), APIURL |-> "", SAToken |-> <<>>]

\* the compliant username the user's signup resolves to
CompliantUsername(userID) == << userID >>

\* the director of newReverseProxy on the header of the outgoing request
director(header, target) ==
    LET h1 == IF <<"User", "Agent">> \in DOMAIN header THEN header
              ELSE HeaderSet(header, <<"User", "Agent">>, <<>>)
    IN  HeaderSet(h1, <<"Authorization">>, <<"Bearer ">> \o target.SAToken)

\* the hop-by-hop headers httputil.ReverseProxy never forwards
hopHeaders ==
    { <<"Connection">>, <<"Proxy", "Connection">>, <<"Keep", "Alive">>,
      <<"Proxy", "Authenticate">>, <<"Proxy", "Authorization">>, <<"Te">>,
      <<"Trailer">>, <<"Transfer", "Encoding">>, <<"Upgrade">> }

\* httputil.ReverseProxy removes the headers the Connection header names
removeConnectionHeaders(h) ==
    LET named == UNION { Range(Split(f, ",")) \ { <<>> } :
                         f \in Range(Lookup(h, <<"Connection">>)) }
    IN  HeaderDel(h, named)

\* httputil's upgradeType: the Upgrade header when the Connection header
\* holds the token upgrade, in any case
upgradeType(h) ==
    IF \E f \in Range(Lookup(h, <<"Connection">>)) :
           \E w \in Range(f) : CanonicalWord(w) = "Upgrade"
    THEN HeaderGet(h, <<"Upgrade">>)
    ELSE <<>>

\* ReverseProxy.ServeHTTP with a Director: the director runs on the copy of the
\* request, then the hop-by-hop headers are removed, the upgrade of the
\* protocol is put back, then the request leaves
ServeHTTP(header, target) ==
    LET directed == director(header, target)
        reqUpType == upgradeType(directed)
        kept == HeaderDel(removeConnectionHeaders(directed), hopHeaders)
    IN  IF reqUpType = <<>> THEN kept
        ELSE HeaderSet(HeaderSet(kept, <<"Connection">>, <<"Upgrade">>),
                       <<"Upgrade">>, reqUpType)

Line(name, value) == [name |-> name, value |-> value]

\* the header lines of the preflight requests browsers send, without and with
\* a bearer token
PreflightRequests ==
    { << Line(<<"Origin">>, <<"https://domain.com">>),
         Line(<<"Access", "Control", "Request", "Method">>, <<"GET">>) >>,
      << Line(<<"Origin">>, <<"https://domain.com">>),
         Line(<<"Access", "Control", "Request", "Method">>, <<"GET">>),
         Line(<<"Access", "Control", "Request", "Headers">>, <<"Authorization">>),
         Line(<<"Authorization">>, <<"Bearer ", "tokenJohn">>) >>,
      << Line(<<"Origin">>, <<"https://domain.com">>),
         Line(<<"Access", "Control", "Request", "Method">>, <<"UNKNOWN">>) >>,
      << Line(<<"Access", "Control", "Request", "Method">>, <<"GET">>) >> }

\* the first piece of a Sec-Websocket-Protocol value that carries a bearer token
BearerProtocol == "base64url.bearer.authorization.k8s.io."

\* the header lines of WebSocket upgrade requests: no bearer value, an empty
\* one, one, and two, the last beside an Authorization header
WebsocketRequests ==
    { << Line(<<"Connection">>, <<"upgrade">>), Line(<<"Upgrade">>, <<"websocket">>) >>,
      << Line(<<"Connection">>, <<"upgrade">>), Line(<<"Upgrade">>, <<"websocket">>),
         Line(<<"Sec", "Websocket", "Protocol">>, <<BearerProtocol, ",", "dummy">>) >>,
      << Line(<<"Connection">>, <<"upgrade">>), Line(<<"Upgrade">>, <<"websocket">>),
         Line(<<"Sec", "Websocket", "Protocol">>, <<BearerProtocol, "tokenJohn", ",", "dummy">>) >>,
      << Line(<<"Connection">>, <<"upgrade">>), Line(<<"Upgrade">>, <<"websocket">>),
         Line(<<"Sec", "Websocket", "Protocol">>, <<BearerProtocol, "tokenJohn", ",", "dummy">>),
         Line(<<"Sec", "Websocket", "Protocol">>, <<BearerProtocol, "tokenJohn", ",", "dummy">>),
         Line(<<"Authorization">>, <<"Bearer ", "tokenJohn">>) >>,
      << Line(<<"Connection">>, <<"upgrade">>), Line(<<"Upgrade">>, <<"websocket">>),
         Line(<<"Sec", "Websocket", "Protocol">>, <<"dummy">>),
         Line(<<"Authorization">>, <<"Bearer ", "tokenJohn">>) >> }

\* the header lines of the requests clients send
ClientRequests ==
    { <<>>,
      << Line(<<"Authorization">>, <<"Bearer ", "tokenJohn">>) >>,
      << Line(<<"authorization">>, <<"Bearer ", "tokenSmith">>),
         Line(<<"User", "Agent">>, <<"kubectl">>) >>,
      << Line(<<"Authorization">>, <<"tokenJohn">>) >>,
      << Line(<<"Authorization">>, <<"Bearer ", "forged">>) >>,
      << Line(<<"Authorization">>, <<"Bearer ", "tokenGhost">>) >>,
      << Line(<<"Authorization">>, <<"Bearer ", "tokenAlice">>) >>,
      << Line(<<"Authorization">>, <<"Bearer ", "tokenNoSub">>) >>,
      << Line(<<"Authorization">>, <<"Bearer ", "tokenNoEmail">>) >>,
      << Line(<<"Authorization">>, <<"Bearer ">>) >>,
      << Line(<<"Authorization">>, <<"Bearer ", "tokenJohn">>),
         Line(<<"Authorization">>, <<"Bearer ", "tokenSmith">>) >>,
      << Line(<<"Authorization">>, <<"Bearer ", "tokenJohn">>),
         Line(<<"Impersonate", "User">>, <<"admin">>) >>,
      << Line(<<"Authorization">>, <<"Bearer ", "tokenSmith">>),
         Line(<<"impersonate", "group">>, <<"system:masters">>) >>,
      << Line(<<"Authorization">>, <<"Bearer ", "tokenJohn">>),
         Line(<<"IMPERSONATE", "EXTRA", "SCOPES">>, <<"view">>) >>,
      << Line(<<"Authorization">>, <<"Bearer ", "tokenSmith">>),
         Line(<<"Connection">>, <<"keep", "alive">>) >>,
      << Line(<<"Authorization">>, <<"Bearer ", "tokenJohn">>),
         Line(<<"Connection">>, <<"authorization">>) >> }

\* req.Method
Methods == { "GET", "OPTIONS" }

\* http.Error: the header of a plain-text error
ErrorHeader ==
    HeaderSet(HeaderSet(EmptyMap, <<"Content", "Type">>, <<"text/plain; charset=utf-8">>),
              <<"X", "Content", "Type", "Options">>, <<"nosniff">>)

\* handleRequestAndRedirect on a request of requests with a method of methods:
\* the context from the bearer token, the target namespace, and the reverse
\* proxy to the member cluster
handleRequestAndRedirectOf(requests, methods) ==
    \E lines \in requests, m \in methods :
        LET header == ReadMIMEHeader(lines)
            userToken == extractUserToken(header)
            token == FromString(userToken.token)
            ns == GetNamespace(token.Subject)
        IN  /\ hdrs' = header
            /\ method' = m
            /\ IF userToken.err /= NoError \/ token.err /= NoError
               THEN /\ presp' = 401
                    /\ rhdrs' = ErrorHeader
                    /\ pmsg' = << "unable to create a context",
                                  IF userToken.err /= NoError THEN userToken.err.msg
                                  ELSE token.err.msg >>
                    /\ UNCHANGED upstream
               ELSE IF ns.err /= NoError
               THEN /\ presp' = 500
                    /\ rhdrs' = ErrorHeader
                    /\ pmsg' = << "unable to get target namespace", ns.err.msg >>
                    /\ UNCHANGED upstream
               ELSE /\ presp' = 0
                    /\ rhdrs' = EmptyMap
                    /\ pmsg' = <<>>
                    /\ upstream' = upstream \cup
                           { [ host |-> ns.APIURL, user |-> token.Subject,
                               header |-> ServeHTTP(header, ns) ] }
            /\ UNCHANGED <<bannedEmails, urlPath, wsctx, vvars>>

\* the requests of API clients, all of them GET
handleRequestAndRedirect == handleRequestAndRedirectOf(ClientRequests, { "GET" })

\* the preflight requests of browsers and the WebSocket upgrades, which reach
\* the same handler under any method
handlePreflightOrUpgrade ==
    handleRequestAndRedirectOf(PreflightRequests \cup WebsocketRequests, Methods)

\* the header lines of plain HTTP requests whose Authorization header has or
\* has not the form "Bearer <token>": absent, well formed, another scheme,
\* text before "Bearer ", several "Bearer ", no token
BearerRequests ==
    { <<>>,
      << Line(<<"Authorization">>, <<"Bearer ", "tokenJohn">>) >>,
      << Line(<<"Authorization">>, <<"Bearer ", "tokenSmith">>) >>,
      << Line(<<"Authorization">>, <<"Bearer ", "not-a-token">>) >>,
      << Line(<<"Authorization">>, <<"Basic ", "tokenJohn">>) >>,
      << Line(<<"Authorization">>, <<"tokenJohn">>) >>,
      << Line(<<"Authorization">>, <<"Bearer ">>) >>,
      << Line(<<"Authorization">>, <<"Basic ", "Bearer ", "tokenJohn">>) >>,
      << Line(<<"Authorization">>, <<"Basic ", "Bearer ", "tokenSmith">>) >>,
      << Line(<<"Authorization">>, <<"Bearer ", "tokenJohn", "Bearer ", "tokenSmith">>) >>,
      << Line(<<"Authorization">>, <<"Bearer ", "tokenSmith", "Bearer ", "tokenJohn">>) >>,
      << Line(<<"Authorization">>, <<"Bearer ", "Bearer ", "tokenJohn">>) >> }

\* the plain HTTP requests, all of them GET
handlePlainHTTP == handleRequestAndRedirectOf(BearerRequests, { "GET" })

\* health: the proxy answers /proxyhealth itself
health ==
    /\ presp' = 200
    /\ rhdrs' = HeaderSet(EmptyMap, <<"Content", "Type">>, <<"application/json">>)
    /\ pmsg' = << "{\"alive\": true}" >>
    /\ UNCHANGED <<hdrs, upstream, bannedEmails, method, urlPath, wsctx, vvars>>

(* ------------------------------------------------------------------ *)
(* The states the service starts from                                  *)
(* ------------------------------------------------------------------ *)

\* a UserSignup right after the sign-up
FreshSignup(username) ==
    [NoSignup EXCEPT !.exists = TRUE, !.username = username,
                     !.verificationRequired = TRUE, !.resourceVersion = 1]

\* a UserSignup as counter initiations and attempts wrong codes at time 0 leave it
StartedSignup(username, counter, attempts) ==
    [FreshSignup(username) EXCEPT
        !.labels = SetKey(EmptyMap, UserSignupUserPhoneHashLabelKey, EncodeString(<<"P1">>)),
        !.annotations =
            SetKey(InitCodeAnnotations(
                       SetKey(EmptyMap, UserSignupVerificationInitTimestampAnnotationKey,
                              TimestampFormat(0)),
                       counter - 1, 0, InitialCode),
                   UserVerificationAttemptsAnnotationKey, Itoa(attempts))]

\* an approved UserSignup that holds a phone number
ApprovedSignup(username, phone) ==
    [FreshSignup(username) EXCEPT
        !.verificationRequired = FALSE,
        !.labels = SetKey(SetKey(EmptyMap, UserSignupStateLabelKey, UserSignupStateLabelValueApproved),
                          UserSignupUserPhoneHashLabelKey, EncodeString(phone))]

WithAnnotation(signup, k, v) == [signup EXCEPT !.annotations = SetKey(@, k, v)]

\* the SMS sent at time 0 to a user whose UserSignup counts them
SentBefore(signup) ==
    LET v == Lookup(signup.annotations, UserSignupVerificationCounterAnnotationKey)
    IN  IF AtoiOk(v) THEN [i \in 1..AtoiValue(v) |-> 0] ELSE <<>>

\* the UserSignups and BannedUsers a behaviour may start with
InitialHosts ==
    { [requester |-> NoSignup, other |-> NoSignup, banned |-> {}],
      [requester |-> FreshSignup(Requester), other |-> NoSignup, banned |-> {}],
      [requester |-> [FreshSignup(Requester) EXCEPT !.deactivated = TRUE],
       other |-> NoSignup, banned |-> {}],
      [requester |-> WithAnnotation(StartedSignup(Requester, 1, 0),
                         UserSignupCaptchaScoreAnnotationKey, <<"0", ".", "3">>),
       other |-> NoSignup, banned |-> {}],
      [requester |-> WithAnnotation(WithAnnotation(StartedSignup(Requester, 1, 0),
                         UserSignupCaptchaScoreAnnotationKey, <<"0", ".", "3">>),
                         UserSignupActivationCounterAnnotationKey, <<"2">>),
       other |-> NoSignup, banned |-> {}],
      [requester |-> StartedSignup(Requester, 1, 0),
       other |-> ApprovedSignup(OtherUser, <<"P1">>), banned |-> {}],
      [requester |-> StartedSignup(Requester, 1, 0),
       other |-> NoSignup, banned |-> {EncodeString(<<"P2">>)}] }
    \cup
    { [requester |-> StartedSignup(Requester, c, a), other |-> NoSignup, banned |-> {}] :
        c \in 1..DailyLimit, a \in 0..AttemptsAllowed }

\* the proxy has served no request
InitProxy ==
    /\ hdrs = EmptyMap
    /\ upstream = {}
    /\ presp = 0
    /\ method = "GET"
    /\ rhdrs = EmptyMap
    /\ pmsg = <<>>
    /\ urlPath = <<"/">>
    /\ wsctx = NoContext

\* the emails the host cluster may hold a BannedUser for
BannedEmails == { <<"alice@redhat.com">> }

InitVerificationService ==
    /\ now = 0
    /\ pc = [p \in Procs |-> "idle"]
    /\ loc = [p \in Procs |-> IdleLoc]
    /\ resp = [p \in Procs |-> NoError]
    /\ accepted = {}

Init ==
    /\ \E h \in InitialHosts :
        /\ signups = [u \in Users |-> IF u = Requester THEN h.requester ELSE h.other]
        /\ banned = h.banned
        /\ sent = SentBefore(h.requester)
    /\ InitVerificationService
    /\ InitProxy
    /\ bannedEmails = {}

Next ==
    \/ \E p \in Procs : InitVerification(p)
    \/ \E p \in Procs : SendNotification(p)
    \/ \E p \in Procs : VerifyPhoneCode(p)
    \/ \E p \in Procs : VerifyActivationCode(p)
    \/ \E p \in Procs : UpdateGet(p)
    \/ \E p \in Procs : UpdatePut(p)
    \/ Tick

Spec == Init /\ [][Next]_vars

\* the proxy alone, beside a host cluster that holds no UserSignup
InitOfProxy ==
    /\ signups = [u \in Users |-> NoSignup]
    /\ banned = {}
    /\ sent = <<>>
    /\ InitVerificationService
    /\ InitProxy
    /\ \E emails \in SUBSET BannedEmails : bannedEmails = { EncodeString(e) : e \in emails }

NextProxy ==
    \/ handleRequestAndRedirect
    \/ health

SpecProxy == InitOfProxy /\ [][NextProxy]_vars

\* the proxy before browsers and WebSocket clients
NextBrowser ==
    \/ handlePreflightOrUpgrade
    \/ health

SpecBrowser == InitOfProxy /\ [][NextBrowser]_vars

\* the proxy before plain HTTP clients with any Authorization header
NextBearer ==
    \/ handlePlainHTTP
    \/ health

SpecBearer == InitOfProxy /\ [][NextBearer]_vars

\* PhoneNumberAlreadyInUse alone: the host cluster holds any UserSignups and
\* BannedUsers, and callers ask for a phone number or a hash
PhoneInputs ==
    Phones \cup { EncodeString(ph) : ph \in Phones }
           \cup { <<"+">> \o EncodeString(ph) : ph \in Phones }

\* the UserSignups of user u the check may meet
PhoneSignups(u) ==
    { NoSignup } \cup
    { [FreshSignup(u) EXCEPT
          !.verificationRequired = ~approved,
          !.deactivated = deactivated,
          !.labels = SetKey(IF approved
                            THEN SetKey(EmptyMap, UserSignupStateLabelKey,
                                        UserSignupStateLabelValueApproved)
                            ELSE EmptyMap,
                            UserSignupUserPhoneHashLabelKey, EncodeString(ph))] :
        approved \in BOOLEAN, deactivated \in BOOLEAN, ph \in Phones }

InitOfPhone ==
    /\ \E r \in PhoneSignups(Requester), o \in PhoneSignups(OtherUser) :
           signups = [u \in Users |-> IF u = Requester THEN r ELSE o]
    /\ banned \in SUBSET { EncodeString(ph) : ph \in Phones }
    /\ sent = <<>>
    /\ InitVerificationService
    /\ InitProxy
    /\ bannedEmails = {}

\* listFailed: the error of cl.List
ListFailed == Err(500, "failed listing")

\* a call of PhoneNumberAlreadyInUse: the caller keeps its arguments, the label
\* value it listed by, the error of the List and the verdict
PhoneNumberAlreadyInUseCall(p) ==
    \E username \in Users, phoneNumberOrHash \in PhoneInputs, listOk \in BOOLEAN :
        /\ Takes(p)
        /\ pc' = [pc EXCEPT ![p] = "done"]
        /\ loc' = [loc EXCEPT ![p] =
               [IdleLoc EXCEPT !.op = "phoneInUse", !.username = username,
                               !.phone = phoneNumberOrHash,
                               !.labelValues = SetKey(EmptyMap, BannedUserPhoneNumberHashLabelKey,
                                                      PhoneLabelValue(phoneNumberOrHash)),
                               !.err = IF listOk THEN NoError ELSE ListFailed]]
        /\ resp' = [resp EXCEPT ![p] =
               PhoneNumberAlreadyInUse(signups, banned, username, phoneNumberOrHash, listOk)]
        /\ UNCHANGED <<signups, banned, now, sent, accepted, pvars>>

NextPhone == \E p \in Procs : PhoneNumberAlreadyInUseCall(p)

SpecPhone == InitOfPhone /\ [][NextPhone]_vars

\* VerifyPhoneCode before its captcha gate: the UserSignup holds any captcha
\* score and any activation counter
CaptchaScores == { <<"0", ".", "3">>, <<"0", ".", "9">> }
ActivationCounters == { <<"0">>, <<"1">>, <<"2">>, <<"x">> }

GateSignups ==
    { WithAnnotation(StartedSignup(Requester, 1, 0), UserSignupCaptchaScoreAnnotationKey, score) :
        score \in CaptchaScores }
    \cup
    { WithAnnotation(WithAnnotation(StartedSignup(Requester, 1, 0),
          UserSignupCaptchaScoreAnnotationKey, score),
          UserSignupActivationCounterAnnotationKey, counter) :
        score \in CaptchaScores, counter \in ActivationCounters }

InitOfGate ==
    /\ \E r \in GateSignups :
        /\ signups = [u \in Users |-> IF u = Requester THEN r ELSE NoSignup]
        /\ sent = SentBefore(r)
    /\ banned = {}
    /\ InitVerificationService
    /\ InitProxy
    /\ bannedEmails = {}

SpecGate == InitOfGate /\ [][Next]_vars

\* getWorkspaceContext alone: a request with any path of at most MaxSegments
\* segments, each a word of the routes, a name, a blank or empty
MaxSegments == 5

Segments ==
    { <<"plugins">>, <<"workspaces">>, <<"workspace">>, <<"api">>, <<"name">>, <<" ">>, <<>> }

RECURSIVE PathOf(_)
\* the path whose segments are segs: a "/" before each
PathOf(segs) ==
    IF segs = <<>> THEN <<>>
    ELSE PathOf(SubSeq(segs, 1, Len(segs) - 1)) \o <<"/">> \o segs[Len(segs)]

Paths == { PathOf(segs) : segs \in UNION { [1..n -> Segments] : n \in 1..MaxSegments } }

InitOfWorkspace ==
    /\ signups = [u \in Users |-> NoSignup]
    /\ banned = {}
    /\ sent = <<>>
    /\ InitVerificationService
    /\ hdrs = EmptyMap /\ upstream = {} /\ presp = 0 /\ method = "GET"
    /\ rhdrs = EmptyMap /\ pmsg = <<>>
    /\ bannedEmails = {}
    /\ urlPath \in Paths
    /\ wsctx = NoContext

\* the call of getWorkspaceContext(req): the plugin, the workspace and the
\* error are returned, the path of the request is rewritten
getWorkspaceContextCall ==
    LET result == getWorkspaceContext(urlPath)
    IN  /\ ~wsctx.called
        /\ wsctx' = [called |-> TRUE, proxyPluginName |-> result.proxyPluginName,
                     workspace |-> result.workspace, err |-> result.err]
        /\ urlPath' = result.path
        /\ UNCHANGED <<hdrs, upstream, presp, bannedEmails, method, rhdrs, pmsg, vvars>>

NextWorkspace == getWorkspaceContextCall

SpecWorkspace == InitOfWorkspace /\ [][NextWorkspace]_vars

\* InitVerification alone, before the evaluation of its 24-hour window: the
\* UserSignup holds any counter and any timestamp
StoredCounters == { <<>>, <<"1">>, Itoa(DailyLimit), <<"x">> }
StoredTimestamps == { <<>>, TimestampFormat(0), <<"y">> }

WithoutAnnotation(signup, k) == [signup EXCEPT !.annotations = DeleteAll(@, {k})]

WithOrWithout(signup, k, v) ==
    IF v = <<>> THEN WithoutAnnotation(signup, k) ELSE WithAnnotation(signup, k, v)

WindowSignups ==
    { WithOrWithout(WithOrWithout(StartedSignup(Requester, 1, 0),
          UserSignupVerificationCounterAnnotationKey, counter),
          UserSignupVerificationInitTimestampAnnotationKey, ts) :
        counter \in StoredCounters, ts \in StoredTimestamps }

InitOfWindow ==
    /\ \E r \in WindowSignups :
        /\ signups = [u \in Users |-> IF u = Requester THEN r ELSE NoSignup]
        /\ sent = SentBefore(r)
    /\ banned = {}
    /\ InitVerificationService
    /\ InitProxy
    /\ bannedEmails = {}

NextWindow ==
    \/ \E p \in Procs : InitVerification(p)
    \/ \E p \in Procs : SendNotification(p)
    \/ \E p \in Procs : UpdateGet(p)
    \/ \E p \in Procs : UpdatePut(p)
    \/ Tick

SpecWindow == InitOfWindow /\ [][NextWindow]_vars

\* VerifyPhoneCode alone, before its checks: the UserSignup holds any number
\* of attempts and any expiry
StoredExpiries == { <<>>, TimestampFormat(CodeExpiresInMin), <<"z">> }

ExpirySignups ==
    { WithOrWithout(StartedSignup(Requester, 1, a), UserVerificationExpiryAnnotationKey, e) :
        a \in 0..AttemptsAllowed, e \in StoredExpiries }

InitOfExpiry ==
    /\ \E r \in ExpirySignups :
        /\ signups = [u \in Users |-> IF u = Requester THEN r ELSE NoSignup]
        /\ sent = SentBefore(r)
    /\ banned = {}
    /\ InitVerificationService
    /\ InitProxy
    /\ bannedEmails = {}

NextExpiry ==
    \/ \E p \in Procs : VerifyPhoneCode(p)
    \/ \E p \in Procs : UpdateGet(p)
    \/ \E p \in Procs : UpdatePut(p)
    \/ Tick

SpecExpiry == InitOfExpiry /\ [][NextExpiry]_vars

\* the service with a SocialEvent that opens while requests run
LaterSignups == { FreshSignup(Requester), StartedSignup(Requester, 1, 0) }

InitOfLater ==
    /\ \E r \in LaterSignups :
        /\ signups = [u \in Users |-> IF u = Requester THEN r ELSE NoSignup]
        /\ sent = SentBefore(r)
    /\ banned = {}
    /\ InitVerificationService
    /\ InitProxy
    /\ bannedEmails = {}

NextLater ==
    \/ \E p \in Procs : InitVerification(p)
    \/ \E p \in Procs : SendNotification(p)
    \/ \E p \in Procs : VerifyPhoneCode(p)
    \/ \E p \in Procs : VerifyActivationCodeLater(p)
    \/ \E p \in Procs : UpdateGet(p)
    \/ \E p \in Procs : UpdatePut(p)
    \/ Tick

SpecLater == InitOfLater /\ [][NextLater]_vars

\* two users who register the same phone number: each has signed up, or has
\* already initiated the verification of the number
SharedSignups(u) == { FreshSignup(u), StartedSignup(u, 1, 0) }

InitOfShared ==
    /\ \E r \in SharedSignups(Requester), o \in SharedSignups(OtherUser) :
        /\ signups = [u \in Users |-> IF u = Requester THEN r ELSE o]
        /\ sent = SentBefore(r) \o SentBefore(o)
    /\ banned = {}
    /\ InitVerificationService
    /\ InitProxy
    /\ bannedEmails = {}

NextShared ==
    \/ \E p \in Procs : InitVerificationOf(p, Users)
    \/ \E p \in Procs : SendNotification(p)
    \/ \E p \in Procs : VerifyPhoneCodeOf(p, Users)
    \/ \E p \in Procs : UpdateGet(p)
    \/ \E p \in Procs : UpdatePut(p)
    \/ Tick

SpecShared == InitOfShared /\ [][NextShared]_vars

(* ------------------------------------------------------------------ *)
(* Properties of the verification service                              *)
(* ------------------------------------------------------------------ *)

\* request p takes a step; request p returns to its caller
Steps(p) == pc'[p] /= pc[p] \/ loc'[p] /= loc[p]
Returns(p) == pc[p] /= "done" /\ pc'[p] = "done"

\* the UserSignup request p has read, or reads in its first step
SeenBy(p) == IF pc[p] = "idle" THEN signups[Requester] ELSE loc[p].seen

Annotation(signup, k) == Lookup(signup.annotations, k)

GetFailed == Err(500, "error retrieving usersignup")
TooManyAttempts == Err(429, "too many verification attempts")
InvalidCode == Err(403, "the provided code is invalid")
DailyLimitExceeded == Err(403, "daily limit exceeded")

\* C2: whenever VerifyPhoneCode returns success, the persisted UserSignup has
\* the verification_required state bit false and none of the five
\* verification annotations.
C2_VerifiedSignupIsClean ==
    [][\A p \in Procs :
        (Returns(p) /\ loc'[p].op = "verifyPhone" /\ resp'[p] = NoError)
        => /\ ~VerificationRequired(signups'[Requester])
           /\ DOMAIN signups'[Requester].annotations \cap VerificationAnnotationKeys = {}]_vars

\* a VerifyPhoneCode request has returned success
C2_Witness ==
    \E p \in Procs :
        /\ pc[p] = "done" /\ loc[p].op = "verifyPhone" /\ resp[p] = NoError
        /\ ~VerificationRequired(signups[Requester])
        /\ UserSignupUserPhoneHashLabelKey \in DOMAIN signups[Requester].labels

\* the stored attempts lock the user out of operation op: at least
\* attempts_allowed or, in VerifyPhoneCode, no integer
LockedOut(signup, op) ==
    LET v == Annotation(signup, UserVerificationAttemptsAnnotationKey)
    IN  IF AtoiOk(v) THEN AtoiValue(v) >= AttemptsAllowed ELSE op = "verifyPhone"

\* C3, as amended: a VerifyPhoneCode or VerifyActivationCode request that has
\* read a UserSignup whose attempts lock the user out never changes
\* verification_required and leaves verification_attempts as stored, except
\* that VerifyPhoneCode stores attempts_allowed in place of a value that was
\* no integer. VerifyActivationCode answers 429 at once. VerifyPhoneCode
\* answers the error of the captcha gate or 400 for a phone number in use
\* when these checks fail, 429 when its Update is accepted, and the 500 of the
\* update when every Update has failed.
C3_Lockout ==
    [][\A p \in Procs :
        LET op == loc'[p].op
            seen == SeenBy(p)
            before == signups[Requester]
            after == signups'[Requester]
            v == Annotation(seen, UserVerificationAttemptsAnnotationKey)
            gate == VerifyCaptchaGate(seen)
        IN  (Steps(p) /\ op \in { "verifyPhone", "verifyActivation" }
                /\ seen.exists /\ LockedOut(seen, op))
            => /\ VerificationRequired(after) = VerificationRequired(before)
               /\ Annotation(after, UserVerificationAttemptsAnnotationKey) =
                      IF AtoiOk(v) \/ after = before
                      THEN Annotation(before, UserVerificationAttemptsAnnotationKey)
                      ELSE Itoa(AttemptsAllowed)
               /\ (Returns(p) /\ resp'[p] /= GetFailed) =>
                      IF op = "verifyActivation" THEN resp'[p] = TooManyAttempts
                      ELSE IF pc[p] = "idle"
                      THEN resp'[p] = IF gate /= NoError THEN gate
                                      ELSE Err(400, "phone number already in use")
                      ELSE /\ resp'[p] \in { TooManyAttempts, UpdateError }
                           /\ resp'[p] = TooManyAttempts => pc[p] = "put"
                           /\ resp'[p] = UpdateError => after = before]_vars

\* a VerifyPhoneCode request was answered 429 and verification is still required
C3_Witness ==
    \E p \in Procs :
        /\ pc[p] = "done" /\ loc[p].op = "verifyPhone" /\ resp[p] = TooManyAttempts
        /\ VerificationRequired(signups[Requester])
        /\ Annotation(signups[Requester], UserVerificationAttemptsAnnotationKey) = Itoa(AttemptsAllowed)

\* C3, as stated: a VerifyPhoneCode or VerifyActivationCode request that has
\* read a UserSignup whose attempts lock the user out is answered 429 and
\* changes neither verification_required nor verification_attempts.
C3_LockoutAlways429 ==
    [][\A p \in Procs :
        LET seen == SeenBy(p)
            before == signups[Requester]
            after == signups'[Requester]
        IN  (Returns(p) /\ loc'[p].op \in { "verifyPhone", "verifyActivation" }
                /\ seen.exists /\ LockedOut(seen, loc'[p].op) /\ resp'[p] /= GetFailed)
            => /\ resp'[p] = TooManyAttempts
               /\ VerificationRequired(after) = VerificationRequired(before)
               /\ Annotation(after, UserVerificationAttemptsAnnotationKey) =
                      Annotation(before, UserVerificationAttemptsAnnotationKey)]_vars

\* C4, as amended: a VerifyPhoneCode request whose code differs from the
\* stored verification_code never changes verification_required; when its
\* Update is accepted the stored verification_attempts is exactly one greater
\* than the value the request read and the answer is 403 'the provided code is
\* invalid'; when every Update has failed the UserSignup is unchanged and the
\* answer is the 500 of the update.
C4_MismatchCountsOnce ==
    [][\A p \in Procs :
        LET seen == loc[p].seen
            before == signups[Requester]
            after == signups'[Requester]
            read == Annotation(seen, UserVerificationAttemptsAnnotationKey)
        IN  (Steps(p) /\ loc[p].op = "verifyPhone" /\ loc[p].err = InvalidCode)
            => /\ loc[p].code /= Annotation(seen, UserSignupVerificationCodeAnnotationKey)
               /\ VerificationRequired(after) = VerificationRequired(before)
               /\ ~Returns(p) => after = before
               /\ Returns(p) =>
                      /\ resp'[p] \in { InvalidCode, UpdateError }
                      /\ resp'[p] = UpdateError => after = before
                      /\ resp'[p] = InvalidCode =>
                             /\ pc[p] = "put"
                             /\ Annotation(after, UserVerificationAttemptsAnnotationKey) =
                                    Itoa(AtoiValue(read) + 1)]_vars

\* a VerifyPhoneCode request with a wrong code was answered 403 and counted
C4_Witness ==
    \E p \in Procs :
        /\ pc[p] = "done" /\ loc[p].op = "verifyPhone" /\ resp[p] = InvalidCode
        /\ VerificationRequired(signups[Requester])
        /\ AtoiOk(Annotation(signups[Requester], UserVerificationAttemptsAnnotationKey))
        /\ AtoiValue(Annotation(signups[Requester], UserVerificationAttemptsAnnotationKey)) >= 1

\* C4, as stated: every VerifyPhoneCode request whose code differs from the
\* stored verification_code is answered 403 'the provided code is invalid' and
\* leaves verification_attempts one greater than it read and
\* verification_required true.
C4_MismatchAlwaysCounts ==
    [][\A p \in Procs :
        (Returns(p) /\ loc[p].op = "verifyPhone" /\ loc[p].err = InvalidCode)
        => /\ resp'[p] = InvalidCode
           /\ Annotation(signups'[Requester], UserVerificationAttemptsAnnotationKey) =
                  Itoa(AtoiValue(Annotation(loc[p].seen, UserVerificationAttemptsAnnotationKey)) + 1)
           /\ VerificationRequired(signups'[Requester])]_vars

\* C5: the stored verification_attempts is at most attempts_allowed, in every
\* state reached from one where it is, through any interleaving of
\* InitVerification, VerifyPhoneCode and VerifyActivationCode requests and
\* their update retries.
C5_AttemptsAtMostAllowed ==
    LET v == Annotation(signups[Requester], UserVerificationAttemptsAnnotationKey)
    IN  AtoiOk(v) => AtoiValue(v) <= AttemptsAllowed

\* the verification counter after the evaluation of the 24-hour window
WindowCounter(signup, t) ==
    LET v == Annotation(signup, UserSignupVerificationCounterAnnotationKey)
        ts == Annotation(signup, UserSignupVerificationInitTimestampAnnotationKey)
    IN  IF ~TimestampParseOk(ts) \/ t > TimestampParseValue(ts) + Day THEN 0
        ELSE IF v = <<>> THEN 0
        ELSE IF AtoiOk(v) THEN AtoiValue(v) ELSE DailyLimit

\* the annotations of a generated code
CodeAnnotationKeys ==
    { UserSignupVerificationCodeAnnotationKey,
      UserVerificationExpiryAnnotationKey,
      UserVerificationAttemptsAnnotationKey }

\* C6, as amended: an InitVerification request that finds, after the
\* evaluation of the 24-hour window, the verification counter at or above
\* daily_limit sends no SMS and leaves verification_code, verification_expiry
\* and verification_attempts as stored; it answers 403 'daily limit exceeded'
\* when its Update is accepted, and the 500 of the update, with the UserSignup
\* unchanged, when every Update has failed.
C6_DailyLimit ==
    [][\A p \in Procs :
        LET before == signups[Requester]
            after == signups'[Requester]
        IN  /\ (pc[p] = "idle" /\ loc'[p].op = "init" /\ pc'[p] /= "done"
                   /\ WindowCounter(before, now) >= DailyLimit)
               => (pc'[p] = "get" /\ loc'[p].err = DailyLimitExceeded /\ sent' = sent)
            /\ (Steps(p) /\ loc[p].op = "init" /\ loc[p].err = DailyLimitExceeded)
               => /\ sent' = sent
                  /\ \A k \in CodeAnnotationKeys : Annotation(after, k) = Annotation(before, k)
                  /\ Returns(p) =>
                         /\ resp'[p] \in { DailyLimitExceeded, UpdateError }
                         /\ resp'[p] = DailyLimitExceeded => pc[p] = "put"
                         /\ resp'[p] = UpdateError => after = before]_vars

\* an InitVerification request was answered 403 'daily limit exceeded'
C6_Witness ==
    \E p \in Procs :
        /\ pc[p] = "done" /\ loc[p].op = "init" /\ resp[p] = DailyLimitExceeded
        /\ WindowCounter(signups[Requester], now) >= DailyLimit

\* C6, as stated: every InitVerification request that finds the verification
\* counter at or above daily_limit is answered 403 'daily limit exceeded'.
C6_DailyLimitAlways403 ==
    [][\A p \in Procs :
        (Returns(p) /\ loc[p].op = "init" /\ loc[p].err = DailyLimitExceeded)
        => resp'[p] = DailyLimitExceeded]_vars

\* C7: the verification SMS sent to one user within one 24-hour window are
\* never more than daily_limit.
C7_SendsWithinLimit ==
    \A i \in DOMAIN sent :
        Cardinality({ j \in DOMAIN sent : sent[j] >= sent[i] /\ sent[j] <= sent[i] + Day })
            <= DailyLimit

\* C8: the stored verification_counter is an integer at most daily_limit, in
\* every state reached from one where it is.
C8_CounterAtMostLimit ==
    LET v == Annotation(signups[Requester], UserSignupVerificationCounterAnnotationKey)
    IN  UserSignupVerificationCounterAnnotationKey \in DOMAIN signups[Requester].annotations
        => (AtoiOk(v) /\ AtoiValue(v) <= DailyLimit)

\* an InitVerification request has counted the last initiation of the window
C8_Witness ==
    \E p \in Procs :
        /\ pc[p] = "done" /\ loc[p].op = "init" /\ resp[p] = NoError
        /\ Annotation(signups[Requester], UserSignupVerificationCounterAnnotationKey) = Itoa(DailyLimit)

\* C9: once a VerifyPhoneCode or VerifyActivationCode request has succeeded
\* and verification_required is false, the UserSignup holds none of the five
\* verification annotations.
C9_VerifiedHasNoAnnotations ==
    (/\ signups[Requester].exists
     /\ ~VerificationRequired(signups[Requester])
     /\ \E p \in Procs : /\ pc[p] = "done" /\ resp[p] = NoError
                         /\ loc[p].op \in { "verifyPhone", "verifyActivation" })
    => DOMAIN signups[Requester].annotations \cap VerificationAnnotationKeys = {}

\* the labels, annotations and state bits the Update of a request sets or deletes
TouchedLabels(l) ==
    IF l.op = "init" THEN DOMAIN l.labelValues
    ELSE IF l.op = "verifyActivation" /\ l.eventErr = NoError THEN { SocialEventUserSignupLabelKey }
    ELSE {}
TouchedAnnotations(l) ==
    IF l.op = "verifyActivation" THEN { UserVerificationAttemptsAnnotationKey }
    ELSE DOMAIN l.annotationValues \cup l.annotationsToDelete
TouchesVerificationRequired(l) ==
    \/ l.op = "verifyPhone" /\ l.unsetVerificationRequired
    \/ l.op = "verifyActivation" /\ l.eventErr = NoError
TouchesDeactivated(l) == l.op = "verifyActivation" /\ l.eventErr = NoError

\* C14: the Update of an InitVerification, VerifyPhoneCode or
\* VerifyActivationCode request leaves every label, annotation and state bit
\* as the UserSignup held it right before that Update, whoever wrote it since
\* the request's first read, except the keys the request itself sets or deletes.
C14_UpdateKeepsOtherWrites ==
    [][\A p \in Procs :
        LET l == loc[p]
            before == signups[Requester]
            after == signups'[Requester]
        IN  (pc[p] = "put" /\ Steps(p))
            => /\ after.exists = before.exists /\ after.username = before.username
               /\ \A k \in (DOMAIN before.labels \cup DOMAIN after.labels) \ TouchedLabels(l) :
                      /\ (k \in DOMAIN after.labels) = (k \in DOMAIN before.labels)
                      /\ Lookup(after.labels, k) = Lookup(before.labels, k)
               /\ \A k \in (DOMAIN before.annotations \cup DOMAIN after.annotations)
                             \ TouchedAnnotations(l) :
                      /\ (k \in DOMAIN after.annotations) = (k \in DOMAIN before.annotations)
                      /\ Lookup(after.annotations, k) = Lookup(before.annotations, k)
               /\ ~TouchesVerificationRequired(l)
                      => VerificationRequired(after) = VerificationRequired(before)
               /\ ~TouchesDeactivated(l) => Deactivated(after) = Deactivated(before)]_vars

\* an InitVerification request that read the UserSignup before a
\* VerifyActivationCode request changed it had its Update accepted after that
\* change: the social event and the cleared verification_required are kept
\* beside the new code
C14_Witness ==
    \E p, q \in Procs :
        /\ pc[p] = "done" /\ loc[p].op = "init" /\ resp[p] = NoError /\ p \in accepted
        /\ pc[q] = "done" /\ loc[q].op = "verifyActivation" /\ resp[q] = NoError /\ q \in accepted
        /\ ~VerificationRequired(signups[Requester])
        /\ SocialEventUserSignupLabelKey \in DOMAIN signups[Requester].labels
        /\ Annotation(signups[Requester], UserVerificationAttemptsAnnotationKey) = <<"0">>
        /\ Annotation(signups[Requester], UserSignupVerificationCodeAnnotationKey)
               \in { generateVerificationCode(buf) : buf \in RandomBytes }

\* request p returns in this step because every invocation of its update
\* closure has failed
GivesUp(p) == Returns(p) /\ pc[p] \in { "get", "put" } /\ p \notin accepted'

\* C15, as amended: when the validation of a request has failed and every
\* invocation of its update closure fails, the UserSignup is left as stored;
\* VerifyActivationCode returns the error of the validation, VerifyPhoneCode
\* the generic error of the update.
C15_ValidationOrUpdateError ==
    [][\A p \in Procs :
        (GivesUp(p) /\ loc[p].op \in { "verifyPhone", "verifyActivation" }
            /\ loc[p].err /= NoError)
        => /\ signups' = signups
           /\ loc[p].op = "verifyActivation" => resp'[p] = loc[p].err
           /\ loc[p].op = "verifyPhone" => resp'[p] = UpdateError]_vars

\* a VerifyActivationCode request with an invalid event whose Updates all
\* failed has returned the error of the validation
C15_Witness ==
    \E p \in Procs :
        /\ pc[p] = "done" /\ loc[p].op = "verifyActivation" /\ p \notin accepted
        /\ loc[p].err /= NoError /\ resp[p] = loc[p].err
        /\ signups[Requester].exists

\* C15, as stated: when the validation of a VerifyPhoneCode or
\* VerifyActivationCode request has failed and every invocation of its update
\* closure fails, the error returned is the error of the validation.
C15_ValidationErrorPreferred ==
    [][\A p \in Procs :
        (GivesUp(p) /\ loc[p].op \in { "verifyPhone", "verifyActivation" }
            /\ loc[p].err /= NoError)
        => resp'[p] = loc[p].err]_vars

\* C16: when every invocation of the update closure has failed,
\* VerifyPhoneCode and InitVerification return the generic error of the
\* update, which the controller answers as 500; they return it in no other case.
C16_GenericUpdateError ==
    [][\A p \in Procs :
        (Returns(p) /\ loc'[p].op \in { "init", "verifyPhone" })
        => /\ GivesUp(p) => (resp'[p] = UpdateError /\ resp'[p].code = 500)
           /\ resp'[p] = UpdateError => (GivesUp(p) /\ signups' = signups)]_vars

\* an InitVerification request whose SMS was sent and whose Updates all
\* failed has returned the generic error
C16_Witness ==
    \E p \in Procs :
        /\ pc[p] = "done" /\ loc[p].op = "init" /\ p \notin accepted
        /\ loc[p].err = NoError /\ resp[p] = UpdateError
        /\ Len(sent) > Len(SentBefore(signups[Requester]))

\* request p is a finished VerifyPhoneCode whose code was right and whose
\* Updates all failed
VerifiedButNotStored(p) ==
    /\ pc[p] = "done" /\ loc[p].op = "verifyPhone"
    /\ loc[p].err = NoError /\ resp[p] = UpdateError

\* the answers of a VerifyPhoneCode request that could not read the host cluster
HostFaultAnswers == { GetFailed, Err(400, "phone number already in use") }

\* C17: a VerifyPhoneCode request none of whose Updates is accepted leaves
\* the UserSignup as stored in every step; after a request that found the
\* code right but could not store it, a VerifyPhoneCode request with the same
\* code that reads the host cluster before the code expires finds it right
\* again, and once its Update is accepted it returns success, with
\* verification_required false and no verification annotation left.
C17_FailedUpdateCanBeRetried ==
    [][\A p \in Procs :
        /\ (Steps(p) /\ loc'[p].op = "verifyPhone" /\ p \notin accepted')
               => signups' = signups
        /\ \A q \in Procs \ {p} :
               (/\ VerifiedButNotStored(p)
                /\ pc[q] = "idle" /\ Steps(q)
                /\ loc'[q].op = "verifyPhone" /\ loc'[q].code = loc[p].code
                /\ now <= TimestampParseValue(
                              Annotation(signups[Requester], UserVerificationExpiryAnnotationKey))
                /\ resp'[q] \notin HostFaultAnswers)
               => (pc'[q] = "get" /\ loc'[q].err = NoError)
        /\ (pc[p] = "put" /\ p \in accepted' /\ loc[p].op = "verifyPhone"
                /\ loc[p].err = NoError)
               => /\ resp'[p] = NoError
                  /\ ~VerificationRequired(signups'[Requester])
                  /\ DOMAIN signups'[Requester].annotations \cap VerificationAnnotationKeys = {}]_vars

\* a VerifyPhoneCode request found the code right and could not store it; a
\* later request with the same code has succeeded
C17_Witness ==
    \E p, q \in Procs :
        /\ VerifiedButNotStored(p) /\ p \notin accepted
        /\ pc[q] = "done" /\ loc[q].op = "verifyPhone" /\ loc[q].code = loc[p].code
        /\ resp[q] = NoError /\ q \in accepted
        /\ ~VerificationRequired(signups[Requester])
        /\ DOMAIN signups[Requester].annotations \cap VerificationAnnotationKeys = {}

\* the UserSignup the first invocation of the update closure of a request
\* hands to Update when it reads the copy the request read first
FirstAttempt(l) ==
    IF l.op = "verifyActivation"
    THEN ActivationDoUpdate(l.seen, l.code, l.eventErr,
             IF l.eventErr /= NoError
             THEN AtoiValue(Annotation(l.seen, UserVerificationAttemptsAnnotationKey)) + 1
             ELSE 0)
    ELSE DoUpdate(l, l.seen)

\* a UserSignup without its resource version
Content(signup) == [signup EXCEPT !.resourceVersion = 0]

\* request p has its Update accepted in this step, and the UserSignup is
\* still the one the request read first
AcceptedUndisturbed(p) ==
    pc[p] = "put" /\ p \in accepted' /\ signups[Requester] = loc[p].seen

\* C18: when the Update of an InitVerification, VerifyPhoneCode or
\* VerifyActivationCode request is accepted, on whichever attempt, and no
\* other writer has changed the UserSignup since the request read it, the
\* persisted UserSignup and the returned result are those of an accepted
\* first attempt.
C18_RetriesInvisible ==
    [][\A p \in Procs :
        AcceptedUndisturbed(p)
        => /\ Content(signups'[Requester]) = Content(FirstAttempt(loc[p]))
           /\ resp'[p] = loc[p].err]_vars

\* C18 for InitVerification and VerifyPhoneCode alone, whose closures store
\* what was computed before the first attempt
C18_RetriesInvisibleOutsideActivation ==
    [][\A p \in Procs :
        (AcceptedUndisturbed(p) /\ loc[p].op \in { "init", "verifyPhone" })
        => /\ Content(signups'[Requester]) = Content(FirstAttempt(loc[p]))
           /\ resp'[p] = loc[p].err]_vars

\* how many steps request p has left at most: a request that has arrived
\* sends, then gets and puts in turn, each get counting one invocation
StepsLeft(p) ==
    IF pc[p] = "done" THEN 0
    ELSE IF pc[p] = "put" THEN 2 * (MaxRetries - loc[p].tries) + 2
    ELSE IF pc[p] = "get" THEN 2 * (MaxRetries - loc[p].tries) + 1
    ELSE IF pc[p] = "send" THEN 2 * MaxRetries + 2
    ELSE 2 * MaxRetries + 3

\* how often the update closure of request p has been invoked once p has taken
\* its next step: a step from "get" is the Get of a new invocation
Invocations(p) == IF pc[p] = "get" THEN loc[p].tries + 1 ELSE loc[p].tries

\* C19: the update closure of a request is invoked at most N times, N the
\* bound of PollUpdateSignup: every invocation is counted, another one is
\* granted only below N, every step of a request brings it nearer to its
\* return, and a request none of whose Updates was accepted returns an error.
C19_AtMostNInvocations ==
    [][\A p \in Procs :
        Steps(p)
        => /\ loc[p].tries <= MaxRetries /\ loc'[p].tries <= MaxRetries
           /\ pc'[p] = "put" => (pc[p] = "get" /\ loc'[p].tries = loc[p].tries + 1)
           /\ (pc[p] \in { "get", "put" } /\ pc'[p] = "get") => loc'[p].tries < MaxRetries
           /\ StepsLeft(p)' < StepsLeft(p) /\ StepsLeft(p)' >= 0
           /\ GivesUp(p) => (Invocations(p) = MaxRetries /\ resp'[p] /= NoError)]_vars

\* a request has given up after N invocations of its update closure
C19_Witness ==
    \E p \in Procs :
        /\ pc[p] = "done" /\ loc[p].op = "verifyPhone" /\ loc[p].err /= NoError
        /\ resp[p] = UpdateError /\ p \notin accepted

SendFailed == Err(500, "error while sending verification code")

\* C20: an InitVerification request sends its SMS before the first
\* invocation of its update closure, and reaches that closure only after the
\* SMS has left or when no SMS is due; when the send fails the request makes
\* no Update, leaves the UserSignup as stored and returns 500 'error while
\* sending verification code'.
C20_SendBeforeUpdate ==
    [][\A p \in Procs :
        /\ (Steps(p) /\ pc[p] = "send")
               => /\ loc[p].op = "init" /\ loc[p].err = NoError
                  /\ loc[p].tries = 0 /\ p \notin accepted'
                  /\ signups' = signups
                  /\ \/ sent' = Append(sent, now) /\ pc'[p] = "get"
                     \/ sent' = sent /\ Returns(p) /\ resp'[p] = SendFailed
        /\ (Steps(p) /\ loc'[p].op = "init" /\ pc[p] \notin { "get", "put" } /\ pc'[p] = "get")
               => \/ pc[p] = "send" /\ sent' = Append(sent, now)
                  \/ pc[p] = "idle" /\ loc'[p].err = DailyLimitExceeded /\ sent' = sent
        /\ (Steps(p) /\ pc[p] /= "send") => sent' = sent]_vars

\* an InitVerification request whose send failed has returned 500 without an
\* Update, and the UserSignup and the SMS sent are those of the start
C20_Witness ==
    \E p \in Procs :
        /\ pc[p] = "done" /\ loc[p].op = "init" /\ resp[p] = SendFailed
        /\ accepted = {}
        /\ signups[Requester].exists
        /\ sent = SentBefore(signups[Requester])

WillNotBeSent == Err(400, "verification code will not be sent")

\* C21: an InitVerification request that has loaded a UserSignup whose
\* verification_required state bit is false returns 400 'verification code
\* will not be sent' at once, sends no SMS and leaves the UserSignup as stored.
C21_NotRequiredIs400 ==
    [][\A p \in Procs :
        (/\ Steps(p) /\ pc[p] = "idle" /\ loc'[p].op = "init"
         /\ signups[Requester].exists /\ ~signups[Requester].verificationRequired
         /\ ~(Returns(p) /\ resp'[p] = GetFailed))
        => /\ Returns(p) /\ resp'[p] = WillNotBeSent
           /\ sent' = sent
           /\ signups' = signups
           /\ p \notin accepted']_vars

\* an InitVerification request for a user who has verified was answered 400
C21_Witness ==
    \E p \in Procs :
        /\ pc[p] = "done" /\ loc[p].op = "init" /\ resp[p] = WillNotBeSent
        /\ signups[Requester].exists /\ ~VerificationRequired(signups[Requester])
        /\ accepted /= {}

\* s is a string of exactly codeLength characters, each in 0-9
IsVerificationCode(s) == Len(s) = codeLength /\ \A i \in 1..Len(s) : IsDigit(s[i])

\* C22: an InitVerification request that goes on to send has planned, from the
\* UserSignup it loaded at the time of the request, a verification_code of
\* exactly six characters in 0-9, verification_expiry = request time +
\* code_expiry_minutes, verification_attempts = 0, verification_counter one
\* greater than the in-window counter it loaded, and the label
\* phone_number_hash = md5 of the submitted phone; the plan does not change
\* while the request runs, and when the request returns success its Update has
\* been accepted and the persisted UserSignup holds exactly these values.
C22_InitStoresCode ==
    [][\A p \in Procs :
        LET before == signups[Requester]
            after == signups'[Requester]
            planned == loc'[p].annotationValues
        IN  /\ (Steps(p) /\ pc[p] = "idle" /\ loc'[p].op = "init" /\ pc'[p] = "send")
               => /\ loc'[p].err = NoError
                  /\ IsVerificationCode(Lookup(planned, UserSignupVerificationCodeAnnotationKey))
                  /\ Lookup(planned, UserVerificationExpiryAnnotationKey) =
                         TimestampFormat(now + CodeExpiresInMin)
                  /\ Lookup(planned, UserVerificationAttemptsAnnotationKey) = <<"0">>
                  /\ Lookup(planned, UserSignupVerificationCounterAnnotationKey) =
                         Itoa(WindowCounter(before, now) + 1)
                  /\ Lookup(loc'[p].labelValues, UserSignupUserPhoneHashLabelKey) =
                         EncodeString(loc'[p].phone)
            /\ (Steps(p) /\ loc[p].op = "init" /\ ~Returns(p))
               => /\ loc'[p].annotationValues = loc[p].annotationValues
                  /\ loc'[p].labelValues = loc[p].labelValues
                  /\ loc'[p].phone = loc[p].phone
            /\ (Returns(p) /\ loc[p].op = "init" /\ resp'[p] = NoError)
               => /\ pc[p] = "put" /\ p \in accepted' /\ loc[p].err = NoError
                  /\ VerificationAnnotationKeys \ { UserSignupVerificationInitTimestampAnnotationKey }
                         \subseteq DOMAIN loc[p].annotationValues
                  /\ \A k \in DOMAIN loc[p].annotationValues :
                         Annotation(after, k) = loc[p].annotationValues[k]
                  /\ IsVerificationCode(Annotation(after, UserSignupVerificationCodeAnnotationKey))
                  /\ Annotation(after, UserVerificationAttemptsAnnotationKey) = <<"0">>
                  /\ Lookup(after.labels, UserSignupUserPhoneHashLabelKey) =
                         EncodeString(loc[p].phone)]_vars

\* as many InitVerification requests as there are callers have succeeded one
\* after the other in one window that started at 0: the counter is their number
C22_Witness ==
    /\ \A p \in Procs : pc[p] = "done" /\ loc[p].op = "init" /\ resp[p] = NoError
    /\ accepted = Procs
    /\ Len(sent) = Cardinality(Procs)
    /\ Annotation(signups[Requester], UserSignupVerificationCounterAnnotationKey) =
           Itoa(Cardinality(Procs))
    /\ IsVerificationCode(Annotation(signups[Requester], UserSignupVerificationCodeAnnotationKey))

\* the stored attempts are below the limit, as checkAttempts finds them
AttemptsBelowLimit(signup) ==
    LET v == Annotation(signup, UserVerificationAttemptsAnnotationKey)
    IN  v = <<>> \/ (AtoiOk(v) /\ AtoiValue(v) < AttemptsAllowed)

\* the UserSignup is approved through the social event code
ApprovedByEvent(signup, code) ==
    /\ ~VerificationRequired(signup)
    /\ ~Deactivated(signup)
    /\ Lookup(signup.labels, SocialEventUserSignupLabelKey) = code
    /\ UserVerificationAttemptsAnnotationKey \notin DOMAIN signup.annotations

C24_InvalidEventCountsOnce ==
    [][\A p \in Procs :
        LET before == signups[Requester]
            after == signups'[Requester]
            v == Annotation(loc[p].seen, UserVerificationAttemptsAnnotationKey)
            loaded == IF v = <<>> THEN 0 ELSE AtoiValue(v)
        IN  (/\ Returns(p) /\ loc[p].op = "verifyActivation" /\ pc[p] = "put"
             /\ p \in accepted' /\ loc[p].eventErr /= NoError)
            => /\ resp'[p].code = 403
               /\ VerificationRequired(after) = VerificationRequired(before)
               /\ Annotation(after, UserVerificationAttemptsAnnotationKey) = Itoa(loaded + 1)]_vars

NotAvailable == Err(403, "verification is not available at this time")

\* C28: a VerifyPhoneCode request skips the captcha gate exactly when
\* allow_low_score_reactivation is true and activation_counter parses to an
\* integer greater than 1; in every other case a parseable captcha_score below
\* the required score makes the request fail with 403 'verification is not
\* available at this time' in its first step, without a change of the
\* UserSignup.
C28_GateSkippedOnlyOnReactivation ==
    [][\A p \in Procs :
        LET before == signups[Requester]
            counter == Annotation(before, UserSignupActivationCounterAnnotationKey)
            score == Annotation(before, UserSignupCaptchaScoreAnnotationKey)
            skipped == /\ CaptchaAllowLowScoreReactivation
                       /\ AtoiOk(counter) /\ AtoiValue(counter) > 1
            low == ParseFloatOk(score) /\ ParseFloatValue(score) < CaptchaRequiredScore
        IN  (/\ Steps(p) /\ pc[p] = "idle" /\ loc'[p].op = "verifyPhone"
             /\ before.exists
             /\ ~(Returns(p) /\ resp'[p] = GetFailed))
            => /\ (~skipped /\ low)
                      => (Returns(p) /\ resp'[p] = NotAvailable /\ signups' = signups)
               /\ (skipped \/ ~low) => ~(Returns(p) /\ resp'[p] = NotAvailable)]_vars

\* the 24-hour window of the UserSignup is to be restarted at time t: the
\* timestamp is missing, unparseable or more than 24 hours old
WindowRestarts(signup, t) ==
    LET ts == Annotation(signup, UserSignupVerificationInitTimestampAnnotationKey)
    IN  \/ ts = <<>>
        \/ ~TimestampParseOk(ts)
        \/ t - TimestampParseValue(ts) > Day

\* C32: an InitVerification request restarts the daily window exactly when
\* the verification_init_timestamp it loaded is missing, unparseable or more
\* than 24 hours old: it then counts from 0, goes on to send and plans
\* verification_init_timestamp = now and verification_counter = 1, whatever
\* counter was stored; otherwise it plans no timestamp and, below the limit,
\* a counter one greater than the stored one. When the request returns
\* success the persisted UserSignup holds the planned counter, and the
\* planned timestamp or else the timestamp it held before.
C32_WindowRestart ==
    [][\A p \in Procs :
        LET before == signups[Requester]
            after == signups'[Requester]
            stored == Annotation(before, UserSignupVerificationCounterAnnotationKey)
            planned == loc'[p].annotationValues
            tsKey == UserSignupVerificationInitTimestampAnnotationKey
        IN  /\ (/\ Steps(p) /\ pc[p] = "idle" /\ loc'[p].op = "init" /\ ~Returns(p))
               => IF WindowRestarts(before, now)
                  THEN /\ pc'[p] = "send" /\ loc'[p].err = NoError
                       /\ Lookup(planned, tsKey) = TimestampFormat(now)
                       /\ Lookup(planned, UserSignupVerificationCounterAnnotationKey) = <<"1">>
                  ELSE /\ tsKey \notin DOMAIN planned
                       /\ pc'[p] = "send"
                              => /\ stored = <<>> \/ AtoiOk(stored)
                                 /\ Lookup(planned, UserSignupVerificationCounterAnnotationKey) =
                                        Itoa(AtoiValue(stored) + 1)
            /\ (Returns(p) /\ loc[p].op = "init" /\ resp'[p] = NoError)
               => /\ Annotation(after, UserSignupVerificationCounterAnnotationKey) =
                         Lookup(loc[p].annotationValues, UserSignupVerificationCounterAnnotationKey)
                  /\ Annotation(after, tsKey) =
                         IF tsKey \in DOMAIN loc[p].annotationValues
                         THEN loc[p].annotationValues[tsKey]
                         ELSE Annotation(before, tsKey)]_vars

\* an InitVerification request that found the counter at the limit and the
\* window more than 24 hours old has succeeded: the counter is 1 again, the
\* window starts at the time of the request, one more SMS has left
C32_Witness ==
    \E p \in Procs :
        /\ pc[p] = "done" /\ loc[p].op = "init" /\ resp[p] = NoError /\ accepted = {p}
        /\ Annotation(signups[Requester], UserSignupVerificationCounterAnnotationKey) = <<"1">>
        /\ Annotation(signups[Requester], UserSignupVerificationInitTimestampAnnotationKey) =
               TimestampFormat(Day + 1)
        /\ Len(sent) = DailyLimit + 1

ExpiryUnparseable == Err(500, "error parsing expiry timestamp")
CodeExpired == Err(403, "verification code expired")

\* what the checks of VerifyPhoneCode find, in the order attempts limit,
\* expiry, comparison of the code
FirstFailingCheck(signup, code, t) ==
    LET att == Annotation(signup, UserVerificationAttemptsAnnotationKey)
        exp == Annotation(signup, UserVerificationExpiryAnnotationKey)
    IN  IF ~(AtoiOk(att) /\ AtoiValue(att) < AttemptsAllowed) THEN TooManyAttempts
        ELSE IF ~TimestampParseOk(exp) THEN ExpiryUnparseable
        ELSE IF TimestampParseValue(exp) < t THEN CodeExpired
        ELSE IF code /= Annotation(signup, UserSignupVerificationCodeAnnotationKey) THEN InvalidCode
        ELSE NoError

\* C33, as amended: a VerifyPhoneCode request that has passed the captcha gate
\* and the phone check evaluates the attempts limit, the expiry and the code
\* in this order, and the first failing check is the error of its validation:
\* below the limit an unparseable verification_expiry is a 500 and an expiry
\* in the past a 403 'verification code expired', whatever the code. In these
\* two cases the request never changes verification_attempts or
\* verification_required; it answers the error of its validation when its
\* Update is accepted, and the 500 of the update when every Update has failed.
C33_CheckOrder ==
    [][\A p \in Procs :
        LET before == signups[Requester]
            after == signups'[Requester]
        IN  /\ (/\ Steps(p) /\ pc[p] = "idle" /\ loc'[p].op = "verifyPhone" /\ ~Returns(p))
               => /\ loc'[p].err = FirstFailingCheck(before, loc'[p].code, now)
                  /\ loc'[p].err \in { ExpiryUnparseable, CodeExpired }
                         => /\ UserVerificationAttemptsAnnotationKey
                                   \notin DOMAIN loc'[p].annotationValues
                            /\ ~loc'[p].unsetVerificationRequired
            /\ (/\ Steps(p) /\ loc[p].op = "verifyPhone"
                /\ loc[p].err \in { ExpiryUnparseable, CodeExpired })
               => /\ Annotation(after, UserVerificationAttemptsAnnotationKey) =
                         Annotation(before, UserVerificationAttemptsAnnotationKey)
                  /\ VerificationRequired(after) = VerificationRequired(before)
                  /\ Returns(p) =>
                         /\ resp'[p] \in { loc[p].err, UpdateError }
                         /\ resp'[p] = loc[p].err => (pc[p] = "put" /\ p \in accepted')
                         /\ resp'[p] = UpdateError => (GivesUp(p) /\ after = before)]_vars

\* a VerifyPhoneCode request with the right code, below the attempts limit,
\* was answered 403 'verification code expired', and the attempts are as they were
C33_Witness ==
    \E p \in Procs :
        /\ pc[p] = "done" /\ loc[p].op = "verifyPhone" /\ resp[p] = CodeExpired
        /\ p \in accepted
        /\ loc[p].code = Annotation(signups[Requester], UserSignupVerificationCodeAnnotationKey)
        /\ Annotation(signups[Requester], UserVerificationAttemptsAnnotationKey) = <<"1">>
        /\ VerificationRequired(signups[Requester])

\* C33, as stated: the first failing check decides the response of every
\* VerifyPhoneCode request: below the attempts limit an unparseable expiry
\* gives 500 'error parsing expiry timestamp' and an expiry in the past 403
\* 'verification code expired'.
C33_FirstCheckIsResponse ==
    [][\A p \in Procs :
        (/\ Returns(p) /\ loc[p].op = "verifyPhone"
         /\ loc[p].err \in { ExpiryUnparseable, CodeExpired })
        => resp'[p] = loc[p].err]_vars

\* the bit verification_required goes from true to false in this step
BitCleared ==
    /\ signups[Requester].exists /\ VerificationRequired(signups[Requester])
    /\ ~VerificationRequired(signups'[Requester])

\* request p is a VerifyPhoneCode that passed the captcha gate, found the
\* attempts below the limit, an expiry and the code it was given
PhoneCodeVerified(l) ==
    /\ l.op = "verifyPhone" /\ l.err = NoError
    /\ VerifyCaptchaGate(l.seen) = NoError
    /\ AttemptsBelowLimit(l.seen)
    /\ TimestampParseOk(Annotation(l.seen, UserVerificationExpiryAnnotationKey))
    /\ l.code = Annotation(l.seen, UserSignupVerificationCodeAnnotationKey)

\* the two ways: the bit is cleared only by the accepted Update of a
\* VerifyPhoneCode request that verified its code, or of a
\* VerifyActivationCode request that found its SocialEvent valid
C35_OnlyTwoWays ==
    [][BitCleared
       => \E p \in Procs :
              /\ pc[p] = "put" /\ p \in accepted'
              /\ \/ PhoneCodeVerified(loc[p])
                 \/ loc[p].op = "verifyActivation" /\ loc[p].eventErr = NoError]_vars

\* C35: the verification_required bit goes from true to false only through
\* a VerifyPhoneCode request that passed the captcha gate and the phone
\* check and found attempts below the limit, an unexpired expiry and the
\* stored code, or through a VerifyActivationCode request whose code names a
\* valid SocialEvent; and every request that returns an error other than an
\* update error leaves the bit unchanged.
C35_BitClearedOnlyBySuccess ==
    [][/\ BitCleared
          => \E p \in Procs :
                 /\ pc[p] = "put" /\ p \in accepted'
                 /\ \/ PhoneCodeVerified(loc[p])
                    \/ loc[p].op = "verifyActivation" /\ loc[p].eventErr = NoError
       /\ \A p \in Procs :
              (Returns(p) /\ resp'[p] \notin { NoError, UpdateError, PollError })
              => VerificationRequired(signups'[Requester]) =
                     VerificationRequired(signups[Requester])]_vars

\* request p compares a wrong code with the stored verification_code in this step
ComparesWrongCode(p) ==
    /\ pc[p] = "idle" /\ pc'[p] = "get"
    /\ loc'[p].op = "verifyPhone" /\ loc'[p].err = InvalidCode

\* the requests other than p whose wrong code has been compared and is not
\* counted in the UserSignup yet
ComparedNotCounted(p) ==
    { q \in Procs \ {p} :
        /\ pc[q] \in { "get", "put" }
        /\ loc[q].op = "verifyPhone" /\ loc[q].err = InvalidCode }

\* C36: of the VerifyPhoneCode requests with a wrong code that follow a
\* successful InitVerification, at most attempts_allowed get their code
\* compared with the stored verification_code, in every interleaving: when a
\* request compares a wrong code, the comparisons the UserSignup counts, those
\* of the requests still running and its own are at most attempts_allowed.
C36_GuessBound ==
    [][\A p \in Procs :
        ComparesWrongCode(p)
        => AtoiValue(Annotation(signups[Requester], UserVerificationAttemptsAnnotationKey))
               + Cardinality(ComparedNotCounted(p)) + 1 <= AttemptsAllowed]_vars

\* C37: a VerifyPhoneCode request clears verification_required only if the
\* code it was given equals the verification_code the UserSignup holds at the
\* moment its Update is accepted, also when an InitVerification request has
\* stored a new code since the request's first read.
C37_ClearedOnlyWithStoredCode ==
    [][\A p \in Procs :
        (/\ pc[p] = "put" /\ p \in accepted' /\ loc[p].op = "verifyPhone"
         /\ BitCleared)
        => loc[p].code = Annotation(signups[Requester], UserSignupVerificationCodeAnnotationKey)]_vars

\* the users whose UserSignup is not deactivated, has completed the phone
\* verification and carries the phone hash label value
VerifiedWith(value) ==
    { u \in Users :
        /\ signups[u].exists /\ ~Deactivated(signups[u])
        /\ ~VerificationRequired(signups[u])
        /\ Lookup(signups[u].labels, UserSignupUserPhoneHashLabelKey) = value }

\* C38: phone exclusivity: in every reachable state at most one UserSignup
\* that is not deactivated and has completed the phone verification carries
\* a given phone_number_hash label, in whatever order two users run
\* InitVerification and VerifyPhoneCode with the same phone number.
C38_PhoneExclusive ==
    \A ph \in Phones : Cardinality(VerifiedWith(EncodeString(ph))) <= 1

\* the Update of request p is accepted in this step and applies the social event
AppliesEvent(p) ==
    /\ pc[p] = "put" /\ p \in accepted' /\ loc[p].eventErr = NoError
    /\ ~VerificationRequired(signups'[Requester])
    /\ Lookup(signups'[Requester].labels, SocialEventUserSignupLabelKey) = loc[p].code

\* C39: a VerifyActivationCode request on an existing UserSignup returns
\* success if and only if its accepted Update applied the social event
\* (verification_required cleared, social_event_name set); whenever it
\* returns an error, the UserSignup has not been approved by that request,
\* also when the validity of the event changes between the invocations of
\* the update closure.
C39_SuccessIffApproved ==
    [][\A p \in Procs :
        (Returns(p) /\ loc[p].op = "verifyActivation" /\ pc[p] \in { "get", "put" })
        => (resp'[p] = NoError <=> AppliesEvent(p))]_vars

\* a VerifyPhoneCode request other than q has succeeded, and q reads, or has
\* read, the UserSignup it left
FollowsSuccess(q) ==
    /\ \E p \in Procs \ {q} :
           pc[p] = "done" /\ loc[p].op = "verifyPhone" /\ resp[p] = NoError /\ p \in accepted
    /\ SeenBy(q).exists /\ ~VerificationRequired(SeenBy(q))
    /\ DOMAIN SeenBy(q).annotations \cap VerificationAnnotationKeys = {}

\* C40: after a VerifyPhoneCode request has succeeded for a user, every
\* further VerifyPhoneCode request for that user, with the same or another
\* code, is rejected and leaves the UserSignup unchanged:
\* verification_required stays false and no verification annotation is
\* written back.
C40_VerifiedStaysUntouched ==
    [][\A q \in Procs :
        (Steps(q) /\ loc'[q].op = "verifyPhone" /\ FollowsSuccess(q))
        => /\ Returns(q) => resp'[q] /= NoError
           /\ ~VerificationRequired(signups'[Requester])
           /\ signups'[Requester].annotations = signups[Requester].annotations]_vars

(* ------------------------------------------------------------------ *)
(* Properties of PhoneNumberAlreadyInUse                               *)
(* ------------------------------------------------------------------ *)

\* UserSignup u is approved and carries the phone hash label value
ApprovedWithHash(u, value) ==
    /\ signups[u].exists
    /\ Lookup(signups[u].labels, UserSignupStateLabelKey) = UserSignupStateLabelValueApproved
    /\ Lookup(signups[u].labels, UserSignupUserPhoneHashLabelKey) = value

\* the label value call p listed by
ListedBy(p) == Lookup(loc[p].labelValues, BannedUserPhoneNumberHashLabelKey)

PhoneInUse == Err(403, "phone number already in use")

IsMd5Hex(s) == Len(s) >= 1 /\ s[1] = "md5"

\* two calls, one with a phone number and one with its MD5 hash, list by the
\* same label value and, for the same caller and the same luck with the List,
\* return the same verdict
C27_RawAndHashAgree ==
    \A p \in Procs, q \in Procs :
        (/\ pc[p] = "done" /\ loc[p].op = "phoneInUse"
         /\ pc[q] = "done" /\ loc[q].op = "phoneInUse"
         /\ loc[p].phone \in Phones /\ loc[q].phone = EncodeString(loc[p].phone))
        => /\ ListedBy(p) = ListedBy(q)
           /\ (loc[p].username = loc[q].username /\ loc[p].err = loc[q].err)
                  => resp[p] = resp[q]

\* C27: PhoneNumberAlreadyInUse lists by the same label value, and so returns
\* the same verdict, whether it is given a phone number or the MD5 hex hash of
\* it; and it takes its input as an already-computed hash, listing by the
\* input itself, only when the whole input is exactly 32 hexadecimal
\* characters.
C27_HashOnlyWhenWholeInput ==
    /\ C27_RawAndHashAgree
    /\ \A p \in Procs :
           (pc[p] = "done" /\ loc[p].op = "phoneInUse" /\ ListedBy(p) = loc[p].phone)
           => IsMd5Hex(loc[p].phone)

(* ------------------------------------------------------------------ *)
(* Properties of the reverse proxy                                     *)
(* ------------------------------------------------------------------ *)

\* the headers of h whose name starts with Impersonate-
ImpersonateHeaders(h) == { k \in DOMAIN h : Len(k) >= 2 /\ k[1] = "Impersonate" }

\* the atoms of all the values of all the headers of h
HeaderAtoms(h) == UNION { Range(v) : v \in UNION { Range(h[k]) : k \in DOMAIN h } }

\* C1: every request the proxy dispatches upstream carries exactly one
\* Impersonate-User header, whose value is the resolved compliant username,
\* and no other header whose name starts with Impersonate-, whatever
\* Impersonate-* headers the client supplied.
C1_ImpersonateUserOnly ==
    \A u \in upstream :
        /\ ImpersonateHeaders(u.header) = { <<"Impersonate", "User">> }
        /\ Lookup(u.header, <<"Impersonate", "User">>) = << CompliantUsername(u.user) >>

\* C10: every request dispatched upstream carries Authorization: Bearer and
\* the service-account token of the target cluster as its only Authorization
\* value, and no header of it holds a bearer token an end user presented.
C10_AuthorizationIsSAToken ==
    \A u \in upstream :
        /\ Lookup(u.header, <<"Authorization">>) = << <<"Bearer ">> \o SAToken(u.host) >>
        /\ HeaderAtoms(u.header) \cap UNION { Range(t) : t \in SignedTokens } = {}

\* C10, the half the director alone decides: no request dispatched upstream
\* holds a bearer token an end user presented
C10_UserTokenNotForwarded ==
    \A u \in upstream :
        HeaderAtoms(u.header) \cap UNION { Range(t) : t \in SignedTokens } = {}

\* the proxy handles a request in this step; /proxyhealth alone answers 200
Handles == presp' /= 200 /\ <<hdrs, upstream, presp>>' /= <<hdrs, upstream, presp>>

\* the first Authorization value of the request, and the bearer token it presents
Presented(h) ==
    IF <<"Authorization">> \in DOMAIN h /\ Len(h[<<"Authorization">>]) > 0
    THEN h[<<"Authorization">>][1] ELSE <<>>
HasBearer(h) == Len(Presented(h)) >= 1 /\ Presented(h)[1] = "Bearer "
BearerToken(h) == Tail(Presented(h))

\* the request presents a token the identity provider signed, with non-empty sub and email
ValidToken(h) ==
    /\ HasBearer(h)
    /\ BearerToken(h) \in SignedTokens
    /\ TokenClaims(BearerToken(h)).Subject /= ""
    /\ TokenClaims(BearerToken(h)).Email /= <<>>

\* the user of the request, whether a BannedUser holds the hash of the user's
\* email, whether the user is provisioned on a member cluster
UserOf(h) == TokenClaims(BearerToken(h)).Subject
IsBanned(h) == EncodeString(TokenClaims(BearerToken(h)).Email) \in bannedEmails
Provisioned(user) == user \in { "johnny", "smith2", "alice" }

C12_PipelineShortCircuits ==
    [][Handles
       => /\ ~ValidToken(hdrs') => (presp' = 401 /\ upstream' = upstream)
          /\ (ValidToken(hdrs') /\ ~Provisioned(UserOf(hdrs')))
                 => (presp' = 500 /\ upstream' = upstream)
          /\ (presp' = 0 \/ upstream' /= upstream)
                 => /\ ValidToken(hdrs') /\ Provisioned(UserOf(hdrs'))
                    /\ upstream' \ upstream \subseteq
                           { u \in upstream' : u.user = UserOf(hdrs') }]_vars

\* a request whose Authorization header holds no bearer token was answered
\* 401 by a proxy that had dispatched other requests
C12_Witness ==
    /\ presp = 401
    /\ Presented(hdrs) /= <<>> /\ ~HasBearer(hdrs)
    /\ upstream /= {}

\* C13: a request with a valid token whose email hash a BannedUser holds is
\* answered 403 'user access is forbidden' and is not dispatched upstream.
C13_BannedUserForbidden ==
    [][(Handles /\ ValidToken(hdrs') /\ IsBanned(hdrs'))
       => (presp' = 403 /\ upstream' = upstream)]_vars

\* the proxy handles a request, whatever its method
HandlesRequest ==
    /\ presp' /= 200
    /\ <<hdrs, upstream, presp, method, rhdrs, pmsg>>' /= <<hdrs, upstream, presp, method, rhdrs, pmsg>>

\* the headers of a satisfied preflight
CORSHeaders ==
    { <<"Access", "Control", "Allow", "Origin">>,
      <<"Access", "Control", "Allow", "Credentials">>,
      <<"Access", "Control", "Allow", "Methods">>,
      <<"Access", "Control", "Allow", "Headers">>,
      <<"Vary">> }

\* the methods a preflight may ask for
PreflightMethods == { "GET", "POST", "PUT", "PATCH", "DELETE", "OPTIONS" }

\* the preflight names its origin and a method the proxy allows
PreflightSatisfied(h) ==
    /\ <<"Origin">> \in DOMAIN h
    /\ <<"Access", "Control", "Request", "Method">> \in DOMAIN h
    /\ HeaderGet(h, <<"Access", "Control", "Request", "Method">>) \in
           { << m >> : m \in PreflightMethods }

\* C29: an OPTIONS request is answered by the proxy itself and never
\* dispatched upstream; when both Origin and Access-Control-Request-Method are
\* present and the method is one of GET, POST, PUT, PATCH, DELETE, OPTIONS the
\* answer is 204 with Access-Control-Allow-Origin echoing the Origin and the
\* other CORS allow headers; otherwise the answer carries no CORS header.
C29_PreflightAnsweredByProxy ==
    [][(HandlesRequest /\ method' = "OPTIONS")
       => /\ upstream' = upstream /\ presp' /= 0
          /\ PreflightSatisfied(hdrs') =>
                 /\ presp' = 204
                 /\ CORSHeaders \ { <<"Access", "Control", "Allow", "Headers">> } \subseteq DOMAIN rhdrs'
                 /\ HeaderGet(rhdrs', <<"Access", "Control", "Allow", "Origin">>) =
                        HeaderGet(hdrs', <<"Origin">>)
          /\ ~PreflightSatisfied(hdrs') => CORSHeaders \cap DOMAIN rhdrs' = {}]_vars

\* the request asks for an upgrade to WebSocket
IsWebsocketUpgrade(h) == upgradeType(h) = <<"websocket">>

\* the Sec-Websocket-Protocol entries of h that carry a bearer value with a
\* token that is not empty
BearerEntries(h) ==
    LET entries == Lookup(h, <<"Sec", "Websocket", "Protocol">>)
    IN  { i \in DOMAIN entries :
            /\ Len(entries[i]) >= 2
            /\ entries[i][1] = BearerProtocol
            /\ entries[i][2] /= "," }

\* C30: for a WebSocket upgrade request the proxy dispatches upstream only when
\* the Sec-Websocket-Protocol entries hold exactly one bearer value with a
\* non-empty token; with none it answers 401 'no base64.bearer.authorization
\* token found', with two or more 401 'multiple base64.bearer.authorization
\* tokens specified', and dispatches nothing.
C30_WebsocketExactlyOneToken ==
    [][(HandlesRequest /\ IsWebsocketUpgrade(hdrs'))
       => LET n == Cardinality(BearerEntries(hdrs'))
          IN  /\ upstream' /= upstream => n = 1
              /\ n = 0 => /\ presp' = 401
                          /\ "no base64.bearer.authorization token found" \in Range(pmsg')
              /\ n >= 2 => /\ presp' = 401
                           /\ "multiple base64.bearer.authorization tokens specified" \in Range(pmsg')]_vars

\* the segments of a path, without the empty piece before its first slash
SegmentsOf(path) == Tail(Split(path, "/"))

\* a segment that names something
IsName(segment) == segment /= <<>> /\ segment /= <<" ">>

\* the path starts with /plugins/<plugin>
NamesPlugin(path) ==
    LET segs == SegmentsOf(path)
    IN  Len(segs) >= 2 /\ segs[1] = <<"plugins">> /\ IsName(segs[2])

\* the segments after the plugin segment, when there is one
AfterPlugin(path) ==
    LET segs == SegmentsOf(path)
    IN  IF NamesPlugin(path) THEN SubSeq(segs, 3, Len(segs)) ELSE segs

\* the path is /workspaces/<ws>/<rest>, after /plugins/<p> or not
NamesWorkspace(path) ==
    LET segs == AfterPlugin(path)
    IN  Len(segs) >= 3 /\ segs[1] = <<"workspaces">> /\ IsName(segs[2])

\* the path starts with neither /plugins/ nor /workspaces/
NeitherPrefix(path) ==
    LET segs == SegmentsOf(path)
    IN  segs[1] \notin { <<"plugins">>, <<"workspaces">> }

ExactlyBearer(h) ==
    LET a == Presented(h)
    IN  Len(a) = 2 /\ a[1] = "Bearer " /\ a[2] /= "Bearer "

\* C34: for a plain HTTP request, token extraction succeeds only if the
\* Authorization header has exactly the form 'Bearer <token>'; a request with
\* any other header value (absent, another scheme, text before 'Bearer ', or
\* several 'Bearer ') is answered 401 and is not dispatched upstream.
C34_ExactlyBearerOr401 ==
    [][(HandlesRequest /\ ~ExactlyBearer(hdrs'))
       => (presp' = 401 /\ upstream' = upstream)]_vars

====
